---- MODULE Spec2Model ----
(***************************************************************************)
(* A model of viesquery (l22-io/vies-query): the command-line run of       *)
(* cmd/viesquery/main.go, the VIES client of internal/vies, and the date   *)
(* rendering core of internal/output (FormatRequestDate and the calendar   *)
(* conversions behind it).                                                 *)
(*                                                                         *)
(* Three specifications share the variables:                               *)
(*   Spec          one run of the CLI, from flag parsing to the exit code  *)
(*   SpecCalendar  the calendar conversions applied to a date (y, m, d)    *)
(*   SpecRender    SetDateOptions followed by FormatRequestDate            *)
(***************************************************************************)
EXTENDS Integers, Sequences, FiniteSets, TLC

VARIABLES
  t,          \* the date handed to the rendering core: [year, month, day]
  conv,       \* SpecCalendar: the results of the conversions of t
  dateStyle,  \* package output: the process-wide style selection
  calendar,   \* package output: the process-wide calendar selection
  rendered,   \* SpecRender: what FormatRequestDate returned for t
  pc,         \* main: where the run is
  env,        \* main: the VIESQUERY_* environment variables
  cmdline,    \* main: the command line (flags given, arguments)
  opts,       \* main: the flag variables after flag.Parse
  cfg,        \* main: what loadConfig returned
  client,     \* main: the vies.Client made by NewClient
  request,    \* CheckVAT: the SOAP request built from the parsed number
  sent,       \* the network: the requests sent to the endpoint, in order
  outcome,    \* the network: what became of the exchange
  err,        \* main: the error CheckVAT returned
  result,     \* main: the result CheckVAT returned
  stdout,     \* the process: what was printed to standard output
  stderr,     \* the process: what was printed to standard error
  exitCode    \* the process: the exit code, once pc = "exited"

calVars == <<t, conv>>
renderVars == <<dateStyle, calendar, rendered>>
cliVars ==
  <<pc, env, cmdline, opts, cfg, client, request, sent, outcome, err, result,
    stdout, stderr, exitCode>>
vars ==
  <<t, conv, dateStyle, calendar, rendered, pc, env, cmdline, opts, cfg,
    client, request, sent, outcome, err, result, stdout, stderr, exitCode>>

(***************************************************************************)
(* Bounds of the model.                                                    *)
(***************************************************************************)
\* SpecCalendar reaches back to the year -DeepestYear (below -4800, where
\* the intermediate year of gregorianToJDN is negative).
DeepestYear == 4802
\* SpecCalendar's last year.
LastYear == 2200

(***************************************************************************)
(* The parts of the state a specification does not use stay as they start. *)
(***************************************************************************)
\* No conversion has been called.
NoConv == [done |-> FALSE]

\* The rendering core before any call: the built-in defaults, nothing
\* rendered.
RenderIdle ==
  dateStyle = "gce-verbose" /\ calendar = "gregorian" /\ rendered = ""

(***************************************************************************)
(* Go integer arithmetic: / truncates toward zero and % takes the sign of  *)
(* the dividend (every divisor in the modelled code is a positive          *)
(* literal).  TLA+'s \div and % are the floor versions.                    *)
(***************************************************************************)
Quo(a, b) == IF a >= 0 THEN a \div b ELSE -((-a) \div b)

Rem(a, b) == a - b * Quo(a, b)

(***************************************************************************)
(* The proleptic Gregorian calendar (spec section 3, CalendarDate).        *)
(***************************************************************************)
IsLeap(y) == y % 4 = 0 /\ (y % 100 # 0 \/ y % 400 = 0)

DaysInMonth(y, m) ==
  IF m = 2 THEN (IF IsLeap(y) THEN 29 ELSE 28)
  ELSE IF m \in {4, 6, 9, 11} THEN 30 ELSE 31

ValidDate(y, m, d) == m \in 1..12 /\ d >= 1 /\ d <= DaysInMonth(y, m)

\* The calendar day after a valid date.
NextDay(y, m, d) ==
  IF d < DaysInMonth(y, m) THEN <<y, m, d + 1>>
  ELSE IF m < 12 THEN <<y, m + 1, 1>>
  ELSE <<y + 1, 1, 1>>

(***************************************************************************)
(* JDNBridge: part_002 lines 134-157.                                      *)
(***************************************************************************)
gregorianToJDN(y, m, d) ==
  LET a  == Quo(14 - m, 12)
      y2 == y + 4800 - a
      m2 == m + 12 * a - 3
  IN  d + Quo(153 * m2 + 2, 5) + 365 * y2
        + Quo(y2, 4) - Quo(y2, 100) + Quo(y2, 400) - 32045

jdnToJulianShifted(jdn) ==
  LET c == jdn + 32083
      d == Quo(4 * c + 3, 1461)
      e == c - Quo(1461 * d, 4)
      m == Quo(5 * e + 2, 153)
  IN  [year  |-> d - 4800 + Quo(m, 10),
       month |-> m + 3 - 12 * Quo(m, 10),
       day   |-> e - Quo(153 * m + 2, 5) + 1]

jdnToJulian(jdn) ==
  LET c == jdn + 32082
      d == Quo(4 * c + 3, 1461)
      e == c - Quo(1461 * d, 4)
      m == Quo(5 * e + 2, 153)
  IN  [year  |-> d - 4800 + Quo(m, 10),
       month |-> m + 3 - 12 * Quo(m, 10),
       day   |-> e - Quo(153 * m + 2, 5) + 1]

julianFromGregorian(y, m, d) == jdnToJulian(gregorianToJDN(y, m, d))

(***************************************************************************)
(* EraResolver: part_002 lines 159-190.                                    *)
(***************************************************************************)
afterOrEqualStrictDay(y, m, d, y2, m2, d2) ==
  IF y # y2 THEN y > y2
  ELSE IF m # m2 THEN m > m2
  ELSE d > d2

afterOrEqual(y, m, d, y2, m2, d2) ==
  IF y # y2 THEN y > y2
  ELSE IF m # m2 THEN m > m2
  ELSE d >= d2

eras ==
  << [name |-> "Reiwa",  y |-> 2019, m |-> 5,  d |-> 1],
     [name |-> "Heisei", y |-> 1989, m |-> 1,  d |-> 8],
     [name |-> "Showa",  y |-> 1926, m |-> 12, d |-> 25],
     [name |-> "Taisho", y |-> 1912, m |-> 7,  d |-> 30],
     [name |-> "Meiji",  y |-> 1868, m |-> 10, d |-> 23] >>

\* The range loop returns at the first entry that matches.
japaneseEra(y, m, d) ==
  LET hits == {i \in 1..Len(eras) :
                 afterOrEqual(y, m, d, eras[i].y, eras[i].m, eras[i].d)}
  IN  IF hits = {} THEN [era |-> "Pre-Meiji", eraYear |-> y]
      ELSE LET i == CHOOSE k \in hits : \A h \in hits : k <= h
           IN  [era |-> eras[i].name, eraYear |-> y - eras[i].y + 1]

\* A variant with the divisor 17720 in place of 17719 in the year term.
islamicFromJDNDivisor17720(jdn) ==
  LET l0 == jdn - 1948440 + 10632
      n  == Quo(l0 - 1, 10631)
      l1 == l0 - 10631 * n + 354
      j  == Quo(10985 - l1, 5316) * Quo(50 * l1, 17720)
              + Quo(l1, 5670) * Quo(43 * l1, 15238)
      l2 == l1 - Quo(30 - j, 15) * Quo(17719 * j, 50)
               - Quo(j, 16) * Quo(15238 * j, 43) + 29
      im == Quo(24 * l2, 709)
  IN  [year |-> 30 * n + j - 30, month |-> im, day |-> l2 - Quo(709 * im, 24)]

(***************************************************************************)
(* Tabular Islamic calendar: part_002 lines 192-205.                       *)
(***************************************************************************)
islamicFromJDNCycle10632(jdn) ==
  LET l0 == jdn - 1948440 + 10632
      n  == Quo(l0 - 1, 10632)
      l1 == l0 - 10632 * n + 354
      j  == Quo(10985 - l1, 5316) * Quo(50 * l1, 17719)
              + Quo(l1, 5670) * Quo(43 * l1, 15238)
      l2 == l1 - Quo(30 - j, 15) * Quo(17719 * j, 50)
               - Quo(j, 16) * Quo(15238 * j, 43) + 29
      im == Quo(24 * l2, 709)
  IN  [year |-> 30 * n + j - 30, month |-> im, day |-> l2 - Quo(709 * im, 24)]

islamicFromJDN(jdn) ==
  LET l0 == jdn - 1948440 + 10632
      n  == Quo(l0 - 1, 10631)
      l1 == l0 - 10631 * n + 354
      j  == Quo(10985 - l1, 5316) * Quo(50 * l1, 17719)
              + Quo(l1, 5670) * Quo(43 * l1, 15238)
      l2 == l1 - Quo(30 - j, 15) * Quo(17719 * j, 50)
               - Quo(j, 16) * Quo(15238 * j, 43) + 29
      im == Quo(24 * l2, 709)
  IN  [year |-> 30 * n + j - 30, month |-> im, day |-> l2 - Quo(709 * im, 24)]

islamicCivilFromGregorian(y, m, d) == islamicFromJDN(gregorianToJDN(y, m, d))

\* A variant whose September threshold is passed only after the 20th.
hebrewYearApproxAfterTwentieth(gy, gm, gd) ==
  IF gm > 9 THEN gy + 3761
  ELSE IF gm < 9 THEN gy + 3760
  ELSE IF gd > 20 THEN gy + 3761
  ELSE gy + 3760

(***************************************************************************)
(* Approximate Hebrew year: part_002 lines 238-252.                        *)
(***************************************************************************)
hebrewYearApprox(gy, gm, gd) ==
  IF gm > 9 THEN gy + 3761
  ELSE IF gm < 9 THEN gy + 3760
  ELSE IF gd >= 20 THEN gy + 3761
  ELSE gy + 3760

(***************************************************************************)
(* Go's time package, as far as FormatRequestDate uses it: the day count   *)
(* of a civil date (days since 1970-01-01), the weekday, the ISO week,     *)
(* and the formatting verbs.                                               *)
(***************************************************************************)
DaysFromCivil(y, m, d) ==
  LET yy  == IF m <= 2 THEN y - 1 ELSE y
      c   == yy \div 400
      yoe == yy - c * 400
      mp  == IF m > 2 THEN m - 3 ELSE m + 9
      doy == ((153 * mp + 2) \div 5) + d - 1
      doe == yoe * 365 + (yoe \div 4) - (yoe \div 100) + doy
  IN  c * 146097 + doe - 719468

\* The year of a day count.
YearOfDays(z) ==
  LET zz  == z + 719468
      c   == zz \div 146097
      doe == zz - c * 146097
      yoe == (doe - (doe \div 1460) + (doe \div 36524) - (doe \div 146096))
               \div 365
      doy == doe - (365 * yoe + (yoe \div 4) - (yoe \div 100))
      mp  == (5 * doy + 2) \div 153
      m   == IF mp < 10 THEN mp + 3 ELSE mp - 9
  IN  IF m <= 2 THEN yoe + c * 400 + 1 ELSE yoe + c * 400

\* A variant that counts the weekdays from Monday = 0.
WeekdayMondayZero(tt) == (DaysFromCivil(tt.year, tt.month, tt.day) + 3) % 7

\* time.Time.Weekday: Sunday = 0 ... Saturday = 6.
Weekday(tt) == (DaysFromCivil(tt.year, tt.month, tt.day) + 4) % 7

weekdayNames ==
  <<"Sunday", "Monday", "Tuesday", "Wednesday", "Thursday", "Friday",
    "Saturday">>

WeekdayString(tt) == weekdayNames[Weekday(tt) + 1]

goMonthNames ==
  <<"January", "February", "March", "April", "May", "June", "July",
    "August", "September", "October", "November", "December">>

MonthString(tt) == goMonthNames[tt.month]

\* A variant that groups the days of the calendar year in sevens.
ISOWeekNaive(tt) ==
  LET days == DaysFromCivil(tt.year, tt.month, tt.day)
      yday == days - DaysFromCivil(tt.year, 1, 1)
  IN  [year |-> tt.year, week |-> (yday \div 7) + 1]

\* time.Time.ISOWeek: the year and week of the Thursday of the date's week.
ISOWeek(tt) ==
  LET days == DaysFromCivil(tt.year, tt.month, tt.day)
      d0   == 4 - Weekday(tt)
      d    == IF d0 = 4 THEN -3 ELSE d0
      thu  == days + d
      yr   == YearOfDays(thu)
      yday == thu - DaysFromCivil(yr, 1, 1)
  IN  [year |-> yr, week |-> (yday \div 7) + 1]

\* A variant that takes noon of the date.
UnixNoon(tt) == DaysFromCivil(tt.year, tt.month, tt.day) * 86400 + 43200

\* time.Time.Unix of UTC midnight of the date.
UnixMidnight(tt) == DaysFromCivil(tt.year, tt.month, tt.day) * 86400

\* The decimal digits of n >= 0, zero-padded on the left to width w.
ZeroPad(n, w) ==
  LET str == ToString(n)
      RECURSIVE zeros(_)
      zeros(k) == IF k <= 0 THEN "" ELSE "0" \o zeros(k - 1)
  IN  zeros(w - Len(str)) \o str

\* The layout elements 2006, 01, 02 of time.Time.Format.
LayoutYear(y) == IF y < 0 THEN "-" \o ZeroPad(0 - y, 4) ELSE ZeroPad(y, 4)

\* fmt's %04d and %02d: the sign counts in the width.
Sprintf0d(n, w) == IF n < 0 THEN "-" \o ZeroPad(0 - n, w - 1) ELSE ZeroPad(n, w)

\* fmt's %d.
Sprintfd(n) == ToString(n)

\* A variant that looks at the last digit before the teens.
ordinalSuffixLastDigitFirst(day) ==
  CASE Rem(day, 10) = 1 -> "st"
    [] Rem(day, 10) = 2 -> "nd"
    [] Rem(day, 10) = 3 -> "rd"
    [] OTHER -> "th"

(***************************************************************************)
(* SentenceComposer and StyleRenderer: part_002 lines 23-131, 207-236.     *)
(***************************************************************************)
ordinalSuffix(day) ==
  IF Rem(day, 100) \in {11, 12, 13} THEN "th"
  ELSE CASE Rem(day, 10) = 1 -> "st"
         [] Rem(day, 10) = 2 -> "nd"
         [] Rem(day, 10) = 3 -> "rd"
         [] OTHER -> "th"

monthName(m) ==
  CASE m = 1 -> "January"   [] m = 2 -> "February" [] m = 3 -> "March"
    [] m = 4 -> "April"     [] m = 5 -> "May"      [] m = 6 -> "June"
    [] m = 7 -> "July"      [] m = 8 -> "August"   [] m = 9 -> "September"
    [] m = 10 -> "October"  [] m = 11 -> "November"
    [] m = 12 -> "December" [] OTHER -> ""

islamicMonthName(m) ==
  CASE m = 1 -> "Muharram"         [] m = 2 -> "Safar"
    [] m = 3 -> "Rabi' al-awwal"   [] m = 4 -> "Rabi' al-thani"
    [] m = 5 -> "Jumada al-awwal"  [] m = 6 -> "Jumada al-thani"
    [] m = 7 -> "Rajab"            [] m = 8 -> "Sha'ban"
    [] m = 9 -> "Ramadan"          [] m = 10 -> "Shawwal"
    [] m = 11 -> "Dhu al-Qi'dah"   [] m = 12 -> "Dhu al-Hijjah"
    [] OTHER -> ""

\* The common head of every sentence:
\* "This request was made on <weekday>, <month> <day><suffix>".
SentenceHead(weekday, month, day, sfx) ==
  "This request was made on " \o weekday \o ", " \o month \o " "
    \o Sprintfd(day) \o sfx

\* A variant whose Minguo year is counted from 1912.
verboseCalendarSentenceMinguo1912(cal, tt) ==
  LET weekday   == WeekdayString(tt)
      gregMonth == MonthString(tt)
      day       == tt.day
      sfx       == ordinalSuffix(day)
      y         == tt.year
      head      == SentenceHead(weekday, gregMonth, day, sfx)
  IN  CASE cal = "gregorian" ->
             head \o " of the year " \o Sprintfd(y) \o " of the common era."
        [] cal = "buddhist" ->
             head \o " of the year " \o Sprintfd(y + 543)
               \o " of the Buddhist Era."
        [] cal = "minguo" ->
             head \o " of the year " \o Sprintfd(y - 1912)
               \o " of the Minguo calendar."
        [] cal = "julian" ->
             LET j == julianFromGregorian(y, tt.month, day)
             IN  SentenceHead(weekday, monthName(j.month), j.day,
                              ordinalSuffix(j.day))
                   \o " of the year " \o Sprintfd(j.year)
                   \o " of the Julian calendar."
        [] cal = "japanese" ->
             LET e == japaneseEra(y, tt.month, day)
             IN  head \o " in " \o e.era \o " " \o Sprintfd(e.eraYear)
                   \o " of the Japanese calendar."
        [] cal = "islamic" ->
             LET i == islamicCivilFromGregorian(y, tt.month, day)
             IN  SentenceHead(weekday, islamicMonthName(i.month), i.day,
                              ordinalSuffix(i.day))
                   \o " in year " \o Sprintfd(i.year)
                   \o " AH of the Islamic (Hijri) calendar."
        [] cal = "hebrew" ->
             head \o " in year "
               \o Sprintfd(hebrewYearApprox(y, tt.month, day))
               \o " AM of the Hebrew calendar (tabular approximation)."
        [] OTHER ->
             head \o " of the year " \o Sprintfd(y) \o " of the common era."

\* verboseCalendarSentence(t), reading the selection cal.
verboseCalendarSentence(cal, tt) ==
  LET weekday   == WeekdayString(tt)
      gregMonth == MonthString(tt)
      day       == tt.day
      sfx       == ordinalSuffix(day)
      y         == tt.year
      head      == SentenceHead(weekday, gregMonth, day, sfx)
  IN  CASE cal = "gregorian" ->
             head \o " of the year " \o Sprintfd(y) \o " of the common era."
        [] cal = "buddhist" ->
             head \o " of the year " \o Sprintfd(y + 543)
               \o " of the Buddhist Era."
        [] cal = "minguo" ->
             head \o " of the year " \o Sprintfd(y - 1911)
               \o " of the Minguo calendar."
        [] cal = "julian" ->
             LET j == julianFromGregorian(y, tt.month, day)
             IN  SentenceHead(weekday, monthName(j.month), j.day,
                              ordinalSuffix(j.day))
                   \o " of the year " \o Sprintfd(j.year)
                   \o " of the Julian calendar."
        [] cal = "japanese" ->
             LET e == japaneseEra(y, tt.month, day)
             IN  head \o " in " \o e.era \o " " \o Sprintfd(e.eraYear)
                   \o " of the Japanese calendar."
        [] cal = "islamic" ->
             LET i == islamicCivilFromGregorian(y, tt.month, day)
             IN  SentenceHead(weekday, islamicMonthName(i.month), i.day,
                              ordinalSuffix(i.day))
                   \o " in year " \o Sprintfd(i.year)
                   \o " AH of the Islamic (Hijri) calendar."
        [] cal = "hebrew" ->
             head \o " in year "
               \o Sprintfd(hebrewYearApprox(y, tt.month, day))
               \o " AM of the Hebrew calendar (tabular approximation)."
        [] OTHER ->
             head \o " of the year " \o Sprintfd(y) \o " of the common era."

\* FormatRequestDate(t), reading the selection (style, cal).
formatRequestDateDefaultIsoDate(style, cal, tt) ==
  CASE style = "rfc3339" ->
         LayoutYear(tt.year) \o "-" \o ZeroPad(tt.month, 2) \o "-"
           \o ZeroPad(tt.day, 2) \o "T00:00:00Z"
    [] style = "unix" -> Sprintfd(UnixMidnight(tt))
    [] style = "iso-week" ->
         LET w   == ISOWeek(tt)
             wd0 == Weekday(tt)
             isoWeekday == IF wd0 = 0 THEN 7 ELSE wd0
         IN  Sprintf0d(w.year, 4) \o "-W" \o Sprintf0d(w.week, 2) \o "-"
               \o Sprintfd(isoWeekday)
    [] style = "gce-verbose" -> verboseCalendarSentence(cal, tt)
    [] OTHER ->
         LayoutYear(tt.year) \o "-" \o ZeroPad(tt.month, 2) \o "-"
           \o ZeroPad(tt.day, 2)

\* A variant whose iso-date style renders the Julian date under calendar
\* julian.
formatRequestDateIsoDateByCalendar(style, cal, tt) ==
  LET j == julianFromGregorian(tt.year, tt.month, tt.day)
      dd == IF cal = "julian" THEN j ELSE tt
  IN  CASE style = "iso-date" ->
             LayoutYear(dd.year) \o "-" \o ZeroPad(dd.month, 2) \o "-"
               \o ZeroPad(dd.day, 2)
        [] style = "rfc3339" ->
             LayoutYear(tt.year) \o "-" \o ZeroPad(tt.month, 2) \o "-"
               \o ZeroPad(tt.day, 2) \o "T00:00:00Z"
        [] style = "unix" -> Sprintfd(UnixMidnight(tt))
        [] style = "iso-week" ->
             LET w   == ISOWeek(tt)
                 wd0 == Weekday(tt)
                 isoWeekday == IF wd0 = 0 THEN 7 ELSE wd0
             IN  Sprintf0d(w.year, 4) \o "-W" \o Sprintf0d(w.week, 2) \o "-"
                   \o Sprintfd(isoWeekday)
        [] OTHER -> verboseCalendarSentence(cal, tt)

formatRequestDate(style, cal, tt) ==
  CASE style = "iso-date" ->
         LayoutYear(tt.year) \o "-" \o ZeroPad(tt.month, 2) \o "-"
           \o ZeroPad(tt.day, 2)
    [] style = "rfc3339" ->
         LayoutYear(tt.year) \o "-" \o ZeroPad(tt.month, 2) \o "-"
           \o ZeroPad(tt.day, 2) \o "T00:00:00Z"
    [] style = "unix" -> Sprintfd(UnixMidnight(tt))
    [] style = "iso-week" ->
         LET w   == ISOWeek(tt)
             wd0 == Weekday(tt)
             isoWeekday == IF wd0 = 0 THEN 7 ELSE wd0
         IN  Sprintf0d(w.year, 4) \o "-W" \o Sprintf0d(w.week, 2) \o "-"
               \o Sprintfd(isoWeekday)
    [] OTHER -> verboseCalendarSentence(cal, tt)

\* The conversions FormatRequestDate calls for a selection: only
\* verboseCalendarSentence calls any, one per calendar that needs it.
conversionsCalled(style, cal) ==
  IF style \in {"iso-date", "rfc3339", "unix", "iso-week"} THEN {}
  ELSE CASE cal = "julian"   -> {"julianFromGregorian"}
         [] cal = "japanese" -> {"japaneseEra"}
         [] cal = "islamic"  -> {"islamicCivilFromGregorian"}
         [] cal = "hebrew"   -> {"hebrewYearApprox"}
         [] OTHER            -> {}

FormatRequestDate(tt) == formatRequestDate(dateStyle, calendar, tt)

\* output.SetDateOptions(style, cal): stores the selection.
SetDateOptions(style, cal) == dateStyle' = style /\ calendar' = cal

(***************************************************************************)
(* Text helpers: Go's strings package on the ASCII inputs of the model.    *)
(***************************************************************************)
CharAt(s, i) == SubSeq(s, i, i)

Digits == {"0", "1", "2", "3", "4", "5", "6", "7", "8", "9"}

LowerLetters == "abcdefghijklmnopqrstuvwxyz"

UpperLetters == "ABCDEFGHIJKLMNOPQRSTUVWXYZ"

IsUpper(c) == \E i \in 1..26 : CharAt(UpperLetters, i) = c

UpperChar(c) ==
  IF \E i \in 1..26 : CharAt(LowerLetters, i) = c
  THEN CharAt(UpperLetters, CHOOSE i \in 1..26 : CharAt(LowerLetters, i) = c)
  ELSE c

RECURSIVE ToUpper(_)
ToUpper(s) ==
  IF s = "" THEN ""
  ELSE UpperChar(CharAt(s, 1)) \o ToUpper(SubSeq(s, 2, Len(s)))

\* strings.ReplaceAll(s, " ", "").
RECURSIVE RemoveSpaces(_)
RemoveSpaces(s) ==
  IF s = "" THEN ""
  ELSE (IF CharAt(s, 1) = " " THEN "" ELSE CharAt(s, 1))
         \o RemoveSpaces(SubSeq(s, 2, Len(s)))

HasPrefix(s, p) == Len(s) >= Len(p) /\ SubSeq(s, 1, Len(p)) = p

\* strings.TrimSpace.
RECURSIVE TrimSpace(_)
\* Whether the text s contains the text sub.
Contains(s, sub) ==
  \E i \in 1 .. (Len(s) - Len(sub) + 1) :
    SubSeq(s, i, i + Len(sub) - 1) = sub

TrimSpace(s) ==
  IF s = "" THEN ""
  ELSE IF CharAt(s, 1) = " " THEN TrimSpace(SubSeq(s, 2, Len(s)))
  ELSE IF CharAt(s, Len(s)) = " " THEN TrimSpace(SubSeq(s, 1, Len(s) - 1))
  ELSE s

DigitValue(c) == CHOOSE v \in 0..9 : ToString(v) = c

AllDigits(s) == \A i \in 1..Len(s) : CharAt(s, i) \in Digits

\* The value of a non-empty string of decimal digits.
RECURSIVE DecimalValue(_)
DecimalValue(s) ==
  IF Len(s) = 1 THEN DigitValue(s)
  ELSE 10 * DecimalValue(SubSeq(s, 1, Len(s) - 1))
         + DigitValue(CharAt(s, Len(s)))

(***************************************************************************)
(* VAT number format validation: part_004 lines 316-634.                   *)
(* A pattern of countryValidators is a set of alternatives, each a         *)
(* sequence of segments: a literal text, or n characters of a class.       *)
(***************************************************************************)
Lit(text) == [kind |-> "lit", text |-> text, n |-> Len(text)]

Cls(class, n) == [kind |-> class, text |-> "", n |-> n]

InClass(c, class) ==
  CASE class = "digit"  -> c \in Digits                      \* \d
    [] class = "alnum"  -> c \in Digits \/ IsUpper(c)        \* [A-Z0-9]
    [] class = "upper"  -> IsUpper(c)                        \* [A-Z]
    [] class = "fr"     -> c \in Digits                      \* [A-HJ-NP-Z0-9]
                             \/ (IsUpper(c) /\ c \notin {"I", "O"})
    [] class = "bit"    -> c \in {"0", "1"}                  \* [01]

RECURSIVE MatchSegments(_, _)
MatchSegments(s, segs) ==
  IF segs = <<>> THEN s = ""
  ELSE LET g == Head(segs)
       IN  /\ Len(s) >= g.n
           /\ IF g.kind = "lit" THEN SubSeq(s, 1, g.n) = g.text
              ELSE \A i \in 1..g.n : InClass(CharAt(s, i), g.kind)
           /\ MatchSegments(SubSeq(s, g.n + 1, Len(s)), Tail(segs))

\* regexp.MatchString for the anchored patterns of the table.
MatchString(alts, s) == \E a \in alts : MatchSegments(s, a)

Validator(code, name, alts, min, max, description) ==
  [Code |-> code, Name |-> name, Pattern |-> alts, MinLength |-> min,
   MaxLength |-> max, Description |-> description]

countryValidators ==
  [c \in {"AT", "BE", "BG", "HR", "CY", "CZ", "DK", "EE", "FI", "FR", "DE",
          "EL", "GR", "HU", "IE", "IT", "LV", "LT", "LU", "MT", "NL", "PL",
          "PT", "RO", "SK", "SI", "ES", "SE"} |->
    CASE c = "AT" -> Validator("AT", "Austria",
                       {<<Lit("ATU"), Cls("digit", 8)>>}, 11, 11,
                       "ATU + 8 digits")
      [] c = "BE" -> Validator("BE", "Belgium",
                       {<<Lit("BE"), Cls("bit", 1), Cls("digit", 9)>>}, 12, 12,
                       "BE0 or BE1 + 9 digits")
      [] c = "BG" -> Validator("BG", "Bulgaria",
                       {<<Lit("BG"), Cls("digit", n)>> : n \in 9..10}, 11, 12,
                       "BG + 9 or 10 digits")
      [] c = "HR" -> Validator("HR", "Croatia",
                       {<<Lit("HR"), Cls("digit", 11)>>}, 13, 13,
                       "HR + 11 digits")
      [] c = "CY" -> Validator("CY", "Cyprus",
                       {<<Lit("CY"), Cls("digit", 8), Cls("upper", 1)>>},
                       11, 11, "CY + 8 digits + 1 letter")
      [] c = "CZ" -> Validator("CZ", "Czech Republic",
                       {<<Lit("CZ"), Cls("digit", n)>> : n \in 8..10}, 10, 12,
                       "CZ + 8, 9, or 10 digits")
      [] c = "DK" -> Validator("DK", "Denmark",
                       {<<Lit("DK"), Cls("digit", 8)>>}, 10, 10,
                       "DK + 8 digits")
      [] c = "EE" -> Validator("EE", "Estonia",
                       {<<Lit("EE"), Cls("digit", 9)>>}, 11, 11,
                       "EE + 9 digits")
      [] c = "FI" -> Validator("FI", "Finland",
                       {<<Lit("FI"), Cls("digit", 8)>>}, 10, 10,
                       "FI + 8 digits")
      [] c = "FR" -> Validator("FR", "France",
                       {<<Lit("FR"), Cls("fr", 2), Cls("digit", 9)>>}, 13, 13,
                       "FR + 2 characters + 9 digits")
      [] c = "DE" -> Validator("DE", "Germany",
                       {<<Lit("DE"), Cls("digit", 9)>>}, 11, 11,
                       "DE + 9 digits")
      [] c = "EL" -> Validator("EL", "Greece",
                       {<<Lit("EL"), Cls("digit", 9)>>}, 11, 11,
                       "EL + 9 digits")
      [] c = "GR" -> Validator("GR", "Greece",
                       {<<Lit("GR"), Cls("digit", 9)>>}, 11, 11,
                       "GR + 9 digits (alternative for EL)")
      [] c = "HU" -> Validator("HU", "Hungary",
                       {<<Lit("HU"), Cls("digit", 8)>>}, 10, 10,
                       "HU + 8 digits")
      [] c = "IE" -> Validator("IE", "Ireland",
                       {<<Lit("IE"), Cls("alnum", 8)>>}, 10, 10,
                       "IE + 8 alphanumeric characters")
      [] c = "IT" -> Validator("IT", "Italy",
                       {<<Lit("IT"), Cls("digit", 11)>>}, 13, 13,
                       "IT + 11 digits")
      [] c = "LV" -> Validator("LV", "Latvia",
                       {<<Lit("LV"), Cls("digit", 11)>>}, 13, 13,
                       "LV + 11 digits")
      [] c = "LT" -> Validator("LT", "Lithuania",
                       {<<Lit("LT"), Cls("digit", n)>> : n \in {9, 12}},
                       11, 14, "LT + 9 or 12 digits")
      [] c = "LU" -> Validator("LU", "Luxembourg",
                       {<<Lit("LU"), Cls("digit", 8)>>}, 10, 10,
                       "LU + 8 digits")
      [] c = "MT" -> Validator("MT", "Malta",
                       {<<Lit("MT"), Cls("digit", 8)>>}, 10, 10,
                       "MT + 8 digits")
      [] c = "NL" -> Validator("NL", "Netherlands",
                       {<<Lit("NL"), Cls("digit", 9), Lit("B"),
                          Cls("digit", 2)>>}, 14, 14,
                       "NL + 9 digits + B + 2 digits")
      [] c = "PL" -> Validator("PL", "Poland",
                       {<<Lit("PL"), Cls("digit", 10)>>}, 12, 12,
                       "PL + 10 digits")
      [] c = "PT" -> Validator("PT", "Portugal",
                       {<<Lit("PT"), Cls("digit", 9)>>}, 11, 11,
                       "PT + 9 digits")
      [] c = "RO" -> Validator("RO", "Romania",
                       {<<Lit("RO"), Cls("digit", n)>> : n \in 2..10}, 4, 12,
                       "RO + 2 to 10 digits")
      [] c = "SK" -> Validator("SK", "Slovakia",
                       {<<Lit("SK"), Cls("digit", 10)>>}, 12, 12,
                       "SK + 10 digits")
      [] c = "SI" -> Validator("SI", "Slovenia",
                       {<<Lit("SI"), Cls("digit", 8)>>}, 10, 10,
                       "SI + 8 digits")
      [] c = "ES" -> Validator("ES", "Spain",
                       {<<Lit("ES"), Cls("alnum", 1), Cls("digit", 7),
                          Cls("alnum", 1)>>}, 11, 11,
                       "ES + character + 7 digits + character")
      [] c = "SE" -> Validator("SE", "Sweden",
                       {<<Lit("SE"), Cls("digit", 12)>>}, 14, 14,
                       "SE + 12 digits") ]

\* An error value of package vies: kind is "validation" (*ValidationError),
\* "service" (*ServiceError) or "none" (nil).
NoError == [kind |-> "none", Code |-> "", Message |-> "", VATNumber |-> ""]

ValidationError(code, message, vatNumber) ==
  [kind |-> "validation", Code |-> code, Message |-> message,
   VATNumber |-> vatNumber]

ServiceError(code, message, vatNumber) ==
  [kind |-> "service", Code |-> code, Message |-> message,
   VATNumber |-> vatNumber]

ValidateFormat(vatNumber) ==
  LET v0 == ToUpper(RemoveSpaces(vatNumber))
  IN  IF Len(v0) < 3
      THEN ValidationError("INVALID_FORMAT",
             "VAT number too short (minimum 3 characters)", v0)
      ELSE
        LET cc0 == SubSeq(v0, 1, 2)
            countryCode == IF cc0 = "GR" THEN "EL" ELSE cc0
            v == IF cc0 = "GR" THEN "EL" \o SubSeq(v0, 3, Len(v0)) ELSE v0
        IN  IF countryCode \notin DOMAIN countryValidators
            THEN ValidationError("UNSUPPORTED_COUNTRY",
                   "Unsupported country code: " \o countryCode, v)
            ELSE
              LET validator == countryValidators[countryCode]
              IN  IF Len(v) < validator.MinLength
                       \/ Len(v) > validator.MaxLength
                  THEN ValidationError("INVALID_FORMAT",
                         "Invalid length for " \o validator.Name
                           \o " VAT number. Expected: "
                           \o validator.Description, v)
                  ELSE IF ~MatchString(validator.Pattern, v)
                  THEN ValidationError("INVALID_FORMAT",
                         "Invalid format for " \o validator.Name
                           \o " VAT number. Expected: "
                           \o validator.Description, v)
                  ELSE NoError

\* A variant that splits the number without validating it first.
ParseVATNumberUnchecked(vatNumber) ==
  LET v0 == ToUpper(RemoveSpaces(vatNumber))
      v  == IF HasPrefix(v0, "GR")
            THEN "EL" \o SubSeq(v0, 3, Len(v0)) ELSE v0
      countryCode == SubSeq(v, 1, 2)
      number0 == SubSeq(v, 3, Len(v))
      number == IF countryCode = "AT" /\ HasPrefix(number0, "U")
                THEN SubSeq(number0, 2, Len(number0)) ELSE number0
  IN  [countryCode |-> countryCode, number |-> number, err |-> NoError]

\* A variant that leaves a leading GR as it is.
ParseVATNumberKeepsGR(vatNumber) ==
  LET verr == ValidateFormat(vatNumber)
  IN  IF verr.kind # "none"
      THEN [countryCode |-> "", number |-> "", err |-> verr]
      ELSE
        LET v == ToUpper(RemoveSpaces(vatNumber))
            countryCode == SubSeq(v, 1, 2)
            number0 == SubSeq(v, 3, Len(v))
            number == IF countryCode = "AT" /\ HasPrefix(number0, "U")
                      THEN SubSeq(number0, 2, Len(number0)) ELSE number0
        IN  [countryCode |-> countryCode, number |-> number, err |-> NoError]

ParseVATNumber(vatNumber) ==
  LET verr == ValidateFormat(vatNumber)
  IN  IF verr.kind # "none"
      THEN [countryCode |-> "", number |-> "", err |-> verr]
      ELSE
        LET v0 == ToUpper(RemoveSpaces(vatNumber))
            v  == IF HasPrefix(v0, "GR")
                  THEN "EL" \o SubSeq(v0, 3, Len(v0)) ELSE v0
            countryCode == SubSeq(v, 1, 2)
            number0 == SubSeq(v, 3, Len(v))
            number == IF countryCode = "AT" /\ HasPrefix(number0, "U")
                      THEN SubSeq(number0, 2, Len(number0)) ELSE number0
        IN  [countryCode |-> countryCode, number |-> number, err |-> NoError]

\* GetCountryInfo: the validator of a country code, if there is one.
GetCountryInfo(countryCode) ==
  IF countryCode \in DOMAIN countryValidators
  THEN <<countryValidators[countryCode]>> ELSE <<>>

(***************************************************************************)
(* The VIES exchange: part_004 lines 71-284.                               *)
(***************************************************************************)
\* time.Parse under the layout "2006-01-02": four digits, two, two, and a
\* day that exists in that month of that year.
ParseDateOnly(s) ==
  IF /\ Len(s) = 10
     /\ AllDigits(SubSeq(s, 1, 4)) /\ CharAt(s, 5) = "-"
     /\ AllDigits(SubSeq(s, 6, 7)) /\ CharAt(s, 8) = "-"
     /\ AllDigits(SubSeq(s, 9, 10))
  THEN LET y == DecimalValue(SubSeq(s, 1, 4))
           m == DecimalValue(SubSeq(s, 6, 7))
           d == DecimalValue(SubSeq(s, 9, 10))
       IN  [ok |-> ValidDate(y, m, d), year |-> y, month |-> m, day |-> d,
            offset |-> 0]
  ELSE [ok |-> FALSE, year |-> 0, month |-> 0, day |-> 0, offset |-> 0]

\* time.Parse under the layout "2006-01-02-07:00": the date, then a signed
\* zone offset hh:mm (up to 24 hours and 60 minutes are let through).
ParseDateWithZone(s) ==
  IF /\ Len(s) = 16
     /\ CharAt(s, 11) \in {"+", "-"}
     /\ AllDigits(SubSeq(s, 12, 13)) /\ CharAt(s, 14) = ":"
     /\ AllDigits(SubSeq(s, 15, 16))
  THEN LET date == ParseDateOnly(SubSeq(s, 1, 10))
           hr   == DecimalValue(SubSeq(s, 12, 13))
           mm   == DecimalValue(SubSeq(s, 15, 16))
           mins == hr * 60 + mm
       IN  [date EXCEPT
              !.ok = date.ok /\ hr <= 24 /\ mm <= 60,
              !.offset = IF CharAt(s, 11) = "-" THEN 0 - mins ELSE mins]
  ELSE [ok |-> FALSE, year |-> 0, month |-> 0, day |-> 0, offset |-> 0]

\* A variant that only bounds the day by 31.
parseRequestDateDayUpTo31(s) ==
  IF /\ Len(s) = 10
     /\ AllDigits(SubSeq(s, 1, 4)) /\ CharAt(s, 5) = "-"
     /\ AllDigits(SubSeq(s, 6, 7)) /\ CharAt(s, 8) = "-"
     /\ AllDigits(SubSeq(s, 9, 10))
  THEN LET y == DecimalValue(SubSeq(s, 1, 4))
           m == DecimalValue(SubSeq(s, 6, 7))
           d == DecimalValue(SubSeq(s, 9, 10))
       IN  [ok |-> m \in 1..12 /\ d \in 1..31, year |-> y, month |-> m,
            day |-> d, offset |-> 0]
  ELSE ParseDateWithZone(s)

\* parseSOAPResponse, lines 246-257: the first layout, then the second.
parseRequestDate(s) ==
  IF ParseDateOnly(s).ok THEN ParseDateOnly(s) ELSE ParseDateWithZone(s)

\* The text of a time.Parse error (the reason after the value is left out).
TimeParseErrorText(s) == "parsing time \"" \o s \o "\""

NoResult ==
  [present |-> FALSE, CountryCode |-> "", VatNumber |-> "",
   RequestDate |-> [year |-> 1, month |-> 1, day |-> 1, offset |-> 0],
   Valid |-> FALSE, Name |-> "", Address |-> ""]

\* What a function returning (*CheckVatResult, error) returns.
Returned(res, e) == [result |-> res, err |-> e]

\* A variant that looks at the checkVatResponse element before the Fault.
parseSOAPResponseResponseFirst(body) ==
  IF ~body.wellFormed
  THEN Returned(NoResult, ServiceError("SERVICE_ERROR",
         "Failed to parse SOAP response: XML syntax error", ""))
  ELSE IF body.resp # <<>>
  THEN
    LET resp == body.resp[1]
        requestDate == parseRequestDate(resp.RequestDate)
    IN  IF ~requestDate.ok
        THEN Returned(NoResult, ServiceError("SERVICE_ERROR",
               "Failed to parse request date '" \o resp.RequestDate \o "': "
                 \o TimeParseErrorText(resp.RequestDate), ""))
        ELSE Returned(
               [present |-> TRUE, CountryCode |-> resp.CountryCode,
                VatNumber |-> resp.VatNumber,
                RequestDate |-> [year |-> requestDate.year,
                                 month |-> requestDate.month,
                                 day |-> requestDate.day,
                                 offset |-> requestDate.offset],
                Valid |-> resp.Valid, Name |-> TrimSpace(resp.Name),
                Address |-> TrimSpace(resp.Address)],
               NoError)
  ELSE IF body.fault # <<>>
  THEN Returned(NoResult, ServiceError("SOAP_FAULT",
         "SOAP fault: " \o body.fault[1].Code \o " - "
           \o body.fault[1].String, ""))
  ELSE Returned(NoResult, ServiceError("SERVICE_ERROR",
         "Invalid SOAP response: missing checkVatResponse", ""))

\* A response body, as xml.Unmarshal sees it: whether it is well-formed XML
\* with an Envelope, the Fault element if any, the checkVatResponse element
\* if any (each a sequence of at most one record).
parseSOAPResponse(body) ==
  IF ~body.wellFormed
  THEN Returned(NoResult, ServiceError("SERVICE_ERROR",
         "Failed to parse SOAP response: XML syntax error", ""))
  ELSE IF body.fault # <<>>
  THEN Returned(NoResult, ServiceError("SOAP_FAULT",
         "SOAP fault: " \o body.fault[1].Code \o " - "
           \o body.fault[1].String, ""))
  ELSE IF body.resp = <<>>
  THEN Returned(NoResult, ServiceError("SERVICE_ERROR",
         "Invalid SOAP response: missing checkVatResponse", ""))
  ELSE
    LET resp == body.resp[1]
        requestDate == parseRequestDate(resp.RequestDate)
    IN  IF ~requestDate.ok
        THEN Returned(NoResult, ServiceError("SERVICE_ERROR",
               "Failed to parse request date '" \o resp.RequestDate \o "': "
                 \o TimeParseErrorText(resp.RequestDate), ""))
        ELSE Returned(
               [present |-> TRUE, CountryCode |-> resp.CountryCode,
                VatNumber |-> resp.VatNumber,
                RequestDate |-> [year |-> requestDate.year,
                                 month |-> requestDate.month,
                                 day |-> requestDate.day,
                                 offset |-> requestDate.offset],
                Valid |-> resp.Valid, Name |-> TrimSpace(resp.Name),
                Address |-> TrimSpace(resp.Address)],
               NoError)

\* resp.Status of the statuses the model answers with.
StatusText(status) ==
  CASE status = 200 -> "200 OK"
    [] status = 404 -> "404 Not Found"
    [] status = 500 -> "500 Internal Server Error"
    [] status = 502 -> "502 Bad Gateway"
    [] status = 503 -> "503 Service Unavailable"
    [] status = 504 -> "504 Gateway Timeout"

\* sendSOAPRequest, from c.httpClient.Do on (lines 147-194).  The outcome
\* of the exchange is what the network did: kind "doError" (Do returned an
\* error; timedOut says the client's Timeout ran out), "readError" (the body
\* could not be read) or "response".  ctxDeadlineExceeded is
\* ctx.Err() == context.DeadlineExceeded.  http.NewRequestWithContext
\* cannot fail for the fixed method and endpoint.
sendSOAPRequest(ctxDeadlineExceeded, oc) ==
  IF oc.kind = "doError"
  THEN IF ctxDeadlineExceeded
       THEN Returned(NoResult, ServiceError("NETWORK_TIMEOUT",
              "Request timeout exceeded", ""))
       ELSE Returned(NoResult, ServiceError("SERVICE_ERROR",
              "HTTP request failed: "
                \o (IF oc.timedOut
                    THEN "context deadline exceeded (Client.Timeout exceeded while awaiting headers)"
                    ELSE "dial tcp: connection refused"), ""))
  ELSE IF oc.kind = "readError"
  THEN Returned(NoResult, ServiceError("SERVICE_ERROR",
         "Failed to read response body: unexpected EOF", ""))
  ELSE IF oc.status # 200
  THEN IF oc.status \in {503, 502, 504}
       THEN Returned(NoResult, ServiceError("SERVICE_UNAVAILABLE",
              "VIES service is temporarily unavailable", ""))
       ELSE Returned(NoResult, ServiceError("SERVICE_ERROR",
              "HTTP error: " \o StatusText(oc.status), ""))
  ELSE parseSOAPResponse(oc.body)

\* createSOAPRequest and xml.Marshal: the two elements of the request.
createSOAPRequest(countryCode, vatNumber) ==
  [CountryCode |-> countryCode, VatNumber |-> vatNumber]

(***************************************************************************)
(* The formatters: internal/output/plain.go and json.go.                   *)
(***************************************************************************)
\* time.Time.Format("2006-01-02 15:04:05 UTC") of a parsed date: midnight,
\* and "UTC" is literal text of the layout.
FormatPlainDate(d) ==
  LayoutYear(d.year) \o "-" \o ZeroPad(d.month, 2) \o "-" \o ZeroPad(d.day, 2)
    \o " 00:00:00 UTC"

\* PlainFormatter.Format.
PlainFormat(res) ==
  "VAT Number: " \o res.CountryCode \o res.VatNumber \o "\n"
    \o "Status: " \o (IF res.Valid THEN "Valid" ELSE "Invalid") \o "\n"
    \o (IF res.Valid /\ res.Name # ""
        THEN "Company: " \o res.Name \o "\n" ELSE "")
    \o (IF res.Valid /\ res.Address # ""
        THEN "Address: " \o res.Address \o "\n" ELSE "")
    \o "Request Date: " \o FormatPlainDate(res.RequestDate) \o "\n"

\* PlainFormatter.FormatError.
PlainFormatError(e) ==
  CASE e.kind = "validation" ->
         "Error: " \o e.Message \o "\n"
           \o (IF e.VATNumber # ""
               THEN "VAT Number: " \o e.VATNumber \o "\n" ELSE "")
           \o (IF e.Code = "INVALID_FORMAT" /\ Len(e.VATNumber) >= 2
                    /\ GetCountryInfo(SubSeq(e.VATNumber, 1, 2)) # <<>>
               THEN "Expected Format: "
                      \o GetCountryInfo(SubSeq(e.VATNumber, 1, 2))[1]
                           .Description \o "\n"
               ELSE "")
    [] e.kind = "service" ->
         "Error: " \o e.Message \o "\n"
           \o (IF e.VATNumber # ""
               THEN "VAT Number: " \o e.VATNumber \o "\n" ELSE "")
           \o (CASE e.Code = "NETWORK_TIMEOUT" ->
                      "Try increasing timeout with --timeout flag\n"
                 [] e.Code = "SERVICE_UNAVAILABLE" ->
                      "Please retry later or check VIES service status\n"
                 [] OTHER -> "")
    [] OTHER -> "Error: " \o e.Message \o "\n"

\* encoding/json's string encoding, for texts whose only special character
\* is the double quote.
RECURSIVE JSONEscape(_)
JSONEscape(s) ==
  IF s = "" THEN ""
  ELSE (IF CharAt(s, 1) = "\"" THEN "\\\"" ELSE CharAt(s, 1))
         \o JSONEscape(SubSeq(s, 2, Len(s)))

JSONString(s) == "\"" \o JSONEscape(s) \o "\""

\* time.Time's JSON form (RFC 3339) of a parsed date.
JSONTime(d) ==
  LET mins == IF d.offset < 0 THEN 0 - d.offset ELSE d.offset
  IN  "\"" \o LayoutYear(d.year) \o "-" \o ZeroPad(d.month, 2) \o "-"
        \o ZeroPad(d.day, 2) \o "T00:00:00"
        \o (IF d.offset = 0 THEN "Z"
            ELSE (IF d.offset < 0 THEN "-" ELSE "+")
                   \o ZeroPad(mins \div 60, 2) \o ":" \o ZeroPad(mins % 60, 2))
        \o "\""

\* JSONFormatter.Format: json.MarshalIndent of the result.
JSONFormat(res) ==
  "{\n"
    \o "  \"countryCode\": " \o JSONString(res.CountryCode) \o ",\n"
    \o "  \"vatNumber\": " \o JSONString(res.VatNumber) \o ",\n"
    \o "  \"requestDate\": " \o JSONTime(res.RequestDate) \o ",\n"
    \o "  \"valid\": " \o (IF res.Valid THEN "true" ELSE "false")
    \o (IF res.Name # ""
        THEN ",\n  \"name\": " \o JSONString(res.Name) ELSE "")
    \o (IF res.Address # ""
        THEN ",\n  \"address\": " \o JSONString(res.Address) ELSE "")
    \o "\n}\n"

\* JSONFormatter.FormatError: json.MarshalIndent of the ErrorResponse.
JSONFormatError(e) ==
  "{\n"
    \o "  \"error\": true,\n"
    \o "  \"message\": " \o JSONString(e.Message)
    \o (IF e.kind \in {"validation", "service"} /\ e.Code # ""
        THEN ",\n  \"code\": " \o JSONString(e.Code) ELSE "")
    \o (IF e.kind \in {"validation", "service"} /\ e.VATNumber # ""
        THEN ",\n  \"vatNumber\": " \o JSONString(e.VATNumber) ELSE "")
    \o "\n}\n"

\* Manager.GetFormatter: the formatters registered by NewManager.
HasFormatter(format) == format \in {"plain", "json"}

\* f.Format(result) of the formatter named format.
FormatResult(format, res) ==
  IF format = "json" THEN JSONFormat(res) ELSE PlainFormat(res)

\* f.FormatError(err) of the formatter named format.
FormatError(format, e) ==
  IF format = "json" THEN JSONFormatError(e) ELSE PlainFormatError(e)

(***************************************************************************)
(* The command-line run: cmd/viesquery/main.go.  The log lines of          *)
(* --verbose and the usage text of flag.Usage are not modelled.            *)
(***************************************************************************)
\* getEnvString.
getEnvString(value, defaultValue) ==
  IF value # "" THEN value ELSE defaultValue

\* getEnvInt: strconv.Atoi on the decimal strings of the model.
getEnvInt(value, defaultValue) ==
  IF value # "" /\ AllDigits(value) THEN DecimalValue(value)
  ELSE defaultValue

\* getEnvBool: strconv.ParseBool.
getEnvBool(value, defaultValue) ==
  IF value \in {"1", "t", "T", "TRUE", "true", "True"} THEN TRUE
  ELSE IF value \in {"0", "f", "F", "FALSE", "false", "False"} THEN FALSE
  ELSE defaultValue

\* The value of a flag variable: what the command line gave (a sequence of
\* at most one value), else the flag's default.
FlagValue(given, defaultValue) ==
  IF given = <<>> THEN defaultValue ELSE given[1]

DefaultTimeout == 30

\* The environments the model starts a run in.
Environments ==
  [VIESQUERY_FORMAT     : {"", "json"},
   VIESQUERY_TIMEOUT    : {"", "0"},
   VIESQUERY_VERBOSE    : {""},
   VIESQUERY_DATE_STYLE : {"", "unix"},
   VIESQUERY_CALENDAR   : {"", "hebrew"},
   VIESQUERY_CONFIG     : {""}]

\* The VAT numbers given as the argument.
VatInputs ==
  {"DE123456789", "gr 123456789", "ATU12345678", "AT12345678", "XX123456"}

NoFlags ==
  [parseError |-> FALSE, help |-> FALSE, version |-> FALSE, verbose |-> <<>>,
   format |-> <<>>, timeout |-> <<>>, dateStyle |-> <<>>, calendar |-> <<>>,
   config |-> <<>>, args |-> <<>>]

\* The command lines: the flags given (each a sequence of at most one
\* value) and the arguments after them; one that flag.Parse rejects, one
\* with --help and one with --version.
CommandLines ==
  { [NoFlags EXCEPT !.format = f, !.timeout = tm, !.dateStyle = ds,
                    !.calendar = cal, !.args = a] :
      f \in {<<>>, <<"json">>, <<"xml">>},
      tm \in {<<>>, <<0>>, <<5>>},
      ds \in {<<>>, <<"">>, <<"iso-date">>},
      cal \in {<<>>, <<"">>, <<"julian">>},
      a \in {<<>>, <<"DE123456789", "DE987654321">>}
              \cup {<<v>> : v \in VatInputs} }
    \cup { [NoFlags EXCEPT !.parseError = TRUE],
           [NoFlags EXCEPT !.help = TRUE],
           [NoFlags EXCEPT !.version = TRUE, !.args = <<"DE123456789">>] }

\* What loadConfig can return: the dateStyle and calendar of the file, each
\* empty when the file is missing, unreadable or silent about it.
ConfigFiles == [DateStyle : {"", "rfc3339"}, Calendar : {"", "minguo"}]

\* The requestDate texts VIES answers with.
RequestDateInputs ==
  {"2025-09-09", "2025-09-09+02:00", "2024-02-29", "2023-02-30",
   "2023-02-29-05:00", "09.09.2025"}

EmptyBody == [wellFormed |-> TRUE, fault |-> <<>>, resp |-> <<>>]

\* The checkVatResponse elements VIES answers a request with.
ResponsesTo(req) ==
  { [CountryCode |-> req.CountryCode, VatNumber |-> req.VatNumber,
     RequestDate |-> rd, Valid |-> v,
     Name |-> IF v THEN " ACME GmbH " ELSE "---",
     Address |-> IF v THEN "Hauptstrasse 1, 10115 Berlin " ELSE "---"] :
      rd \in RequestDateInputs, v \in BOOLEAN }

Faults ==
  { [Code |-> "env:Server", String |-> fs] :
      fs \in {"INVALID_INPUT", "MS_UNAVAILABLE"} }

\* The bodies of an HTTP 200 answer.
BodiesTo(req) ==
  { [EmptyBody EXCEPT !.wellFormed = FALSE], EmptyBody }
    \cup { [EmptyBody EXCEPT !.fault = <<f>>] : f \in Faults }
    \cup { [EmptyBody EXCEPT !.resp = <<r>>] : r \in ResponsesTo(req) }
    \cup { [EmptyBody EXCEPT
              !.fault = <<[Code |-> "env:Server", String |-> "INVALID_INPUT"]>>,
              !.resp = <<CHOOSE r \in ResponsesTo(req) :
                           r.RequestDate = "2025-09-09" /\ r.Valid>>] }

\* What can become of the exchange.
OutcomesOf(req) ==
  { [kind |-> "doError", timedOut |-> b, status |-> 0, body |-> EmptyBody] :
      b \in BOOLEAN }
    \cup { [kind |-> "readError", timedOut |-> FALSE, status |-> 200,
            body |-> EmptyBody] }
    \cup { [kind |-> "response", timedOut |-> FALSE, status |-> st,
            body |-> EmptyBody] : st \in {404, 500, 502, 503, 504} }
    \cup { [kind |-> "response", timedOut |-> FALSE, status |-> 200,
            body |-> b] : b \in BodiesTo(req) }

NoOutcome ==
  [kind |-> "none", timedOut |-> FALSE, status |-> 0, body |-> EmptyBody]

NoOpts ==
  [format |-> "", timeout |-> 0, verbose |-> FALSE, version |-> FALSE,
   help |-> FALSE, dateStyle |-> "", calendar |-> "", configPath |-> ""]

NoClient == [made |-> FALSE, Timeout |-> 0, Verbose |-> FALSE]

NoRequest == [CountryCode |-> "", VatNumber |-> ""]

\* The run has not started.
CliIdle ==
  /\ pc = "start"
  /\ env = [VIESQUERY_FORMAT |-> "", VIESQUERY_TIMEOUT |-> "",
            VIESQUERY_VERBOSE |-> "", VIESQUERY_DATE_STYLE |-> "",
            VIESQUERY_CALENDAR |-> "", VIESQUERY_CONFIG |-> ""]
  /\ cmdline = NoFlags
  /\ opts = NoOpts
  /\ cfg = [DateStyle |-> "", Calendar |-> ""]
  /\ client = NoClient
  /\ request = NoRequest
  /\ sent = <<>>
  /\ outcome = NoOutcome
  /\ err = NoError
  /\ result = NoResult
  /\ stdout = ""
  /\ stderr = ""
  /\ exitCode = 0

Init ==
  /\ CliIdle
  /\ RenderIdle
  /\ conv = NoConv
  /\ t = [year |-> 1, month |-> 1, day |-> 1]

\* os.Exit(code), or the return of main (code 0).
Exit(code) == pc' = "exited" /\ exitCode' = code

\* main, lines 23-63: the flag definitions read the environment for their
\* defaults, then flag.Parse reads the command line (and exits with code 2
\* on a flag it cannot parse).
ParseFlags ==
  /\ pc = "start"
  /\ \E e \in Environments, cl \in CommandLines :
       /\ env' = e
       /\ cmdline' = cl
       /\ IF cl.parseError
          THEN /\ stderr' = "flag provided but not defined\n"
               /\ Exit(2)
               /\ UNCHANGED opts
          ELSE /\ opts' =
                    [format     |-> FlagValue(cl.format,
                                      getEnvString(e.VIESQUERY_FORMAT, "plain")),
                     timeout    |-> FlagValue(cl.timeout,
                                      getEnvInt(e.VIESQUERY_TIMEOUT,
                                                DefaultTimeout)),
                     verbose    |-> FlagValue(cl.verbose,
                                      getEnvBool(e.VIESQUERY_VERBOSE, FALSE)),
                     version    |-> cl.version,
                     help       |-> cl.help,
                     dateStyle  |-> FlagValue(cl.dateStyle,
                                      getEnvString(e.VIESQUERY_DATE_STYLE, "")),
                     calendar   |-> FlagValue(cl.calendar,
                                      getEnvString(e.VIESQUERY_CALENDAR, "")),
                     configPath |-> FlagValue(cl.config,
                                      getEnvString(e.VIESQUERY_CONFIG, ""))]
               /\ pc' = "usage"
               /\ UNCHANGED <<stderr, exitCode>>
  /\ UNCHANGED <<cfg, client, request, sent, outcome, err, result, stdout>>
  /\ UNCHANGED <<t, conv, dateStyle, calendar, rendered>>

\* main, lines 65-80: --help, --version, the number of arguments.
CheckUsage ==
  /\ pc = "usage"
  /\ IF opts.help
     THEN /\ Exit(0)
          /\ stderr' = "VIES Query - EU VAT Number Validation Tool (pre-production)\n"
          /\ UNCHANGED stdout
     ELSE IF opts.version
     THEN /\ Exit(0)
          /\ stdout' = "viesquery version dev\nhttps://github.com/l22-io/vies-query\n"
          /\ UNCHANGED stderr
     ELSE IF Len(cmdline.args) # 1
     THEN /\ Exit(1)
          /\ stderr' = "Error: VAT number required\n\n"
          /\ UNCHANGED stdout
     ELSE /\ pc' = "config"
          /\ UNCHANGED <<stdout, stderr, exitCode>>
  /\ UNCHANGED <<env, cmdline, opts, cfg, client, request, sent, outcome, err,
                 result>>
  /\ UNCHANGED <<t, conv, dateStyle, calendar, rendered>>

\* A variant in which the config file beats the flag variable.
ResolveOptionConfigFirst(flagVar, cfgValue, builtin) ==
  IF cfgValue # "" THEN cfgValue
  ELSE IF flagVar # "" THEN flagVar ELSE builtin

\* main, lines 91-105: the style and the calendar handed to SetDateOptions.
ResolveOption(flagVar, cfgValue, builtin) ==
  LET fromConfig == IF cfgValue # "" THEN cfgValue ELSE builtin
  IN  IF flagVar # "" THEN flagVar ELSE fromConfig

\* main, lines 82-106: loadConfig, the resolution, SetDateOptions.
ResolveDateOptions ==
  /\ pc = "config"
  /\ \E c \in ConfigFiles :
       /\ cfg' = c
       /\ SetDateOptions(
            ResolveOption(opts.dateStyle, c.DateStyle, "gce-verbose"),
            ResolveOption(opts.calendar, c.Calendar, "gregorian"))
  /\ pc' = "validate"
  /\ UNCHANGED <<env, cmdline, opts, client, request, sent, outcome, err,
                 result, stdout, stderr, exitCode>>
  /\ UNCHANGED <<t, conv, rendered>>

\* main, lines 108-126: the format and the timeout, then NewClient.
ValidateArguments ==
  /\ pc = "validate"
  /\ IF opts.format # "plain" /\ opts.format # "json"
     THEN /\ Exit(1)
          /\ stderr' = "Error: Invalid format '" \o opts.format
                         \o "'. Supported formats: plain, json\n"
          /\ UNCHANGED client
     ELSE IF opts.timeout < 1
     THEN /\ Exit(1)
          /\ stderr' = "Error: Invalid timeout '" \o ToString(opts.timeout)
                         \o "'. Must be greater than 0\n"
          /\ UNCHANGED client
     ELSE /\ client' = [made |-> TRUE, Timeout |-> opts.timeout,
                        Verbose |-> opts.verbose]
          /\ pc' = "checkvat"
          /\ UNCHANGED <<stderr, exitCode>>
  /\ UNCHANGED <<env, cmdline, opts, cfg, request, sent, outcome, err, result,
                 stdout>>
  /\ UNCHANGED <<t, conv, dateStyle, calendar, rendered>>

\* CheckVAT, lines 72-107: ParseVATNumber, then the request is built.
CheckVATParse ==
  /\ pc = "checkvat"
  /\ LET p == ParseVATNumber(cmdline.args[1])
     IN  IF p.err.kind # "none"
         THEN /\ err' = p.err
              /\ pc' = "handleError"
              /\ UNCHANGED request
         ELSE /\ request' = createSOAPRequest(p.countryCode, p.number)
              /\ pc' = "send"
              /\ UNCHANGED err
  /\ UNCHANGED <<env, cmdline, opts, cfg, client, sent, outcome, result,
                 stdout, stderr, exitCode>>
  /\ UNCHANGED <<t, conv, dateStyle, calendar, rendered>>

\* A variant of the exchange that sends the request a second time when the
\* first answer is an error.
CheckVATSendRetrying ==
  /\ pc = "send"
  /\ \E o \in OutcomesOf(request) :
       /\ outcome' = o
       /\ LET r == sendSOAPRequest(FALSE, o)
          IN  IF r.err.kind # "none"
              THEN /\ sent' = Append(Append(sent, request), request)
                   /\ err' = r.err
                   /\ pc' = "handleError"
                   /\ UNCHANGED result
              ELSE /\ sent' = Append(sent, request)
                   /\ result' = [r.result EXCEPT
                                   !.VatNumber = request.VatNumber,
                                   !.CountryCode = request.CountryCode]
                   /\ pc' = "display"
                   /\ UNCHANGED err
  /\ UNCHANGED <<env, cmdline, opts, cfg, client, request, stdout, stderr,
                 exitCode>>
  /\ UNCHANGED <<t, conv, dateStyle, calendar, rendered>>

\* CheckVAT, lines 109-124: the request is sent (main's context is
\* context.Background(), which has no deadline), the answer parsed, and the
\* parsed number put into the result.
CheckVATSend ==
  /\ pc = "send"
  /\ \E o \in OutcomesOf(request) :
       /\ outcome' = o
       /\ sent' = Append(sent, request)
       /\ LET r == sendSOAPRequest(FALSE, o)
          IN  IF r.err.kind # "none"
              THEN /\ err' = r.err
                   /\ pc' = "handleError"
                   /\ UNCHANGED result
              ELSE /\ result' = [r.result EXCEPT
                                   !.VatNumber = request.VatNumber,
                                   !.CountryCode = request.CountryCode]
                   /\ pc' = "display"
                   /\ UNCHANGED err
  /\ UNCHANGED <<env, cmdline, opts, cfg, client, request, stdout, stderr,
                 exitCode>>
  /\ UNCHANGED <<t, conv, dateStyle, calendar, rendered>>

\* A variant of handleError whose type switch misses the ValidationError.
HandleErrorValidationAsGeneral ==
  /\ pc = "handleError"
  /\ IF ~HasFormatter(opts.format)
     THEN /\ stderr' = "Error: " \o err.Message \o "\n"
          /\ Exit(2)
          /\ UNCHANGED stdout
     ELSE /\ stdout' = FormatError(opts.format, err)
          /\ IF err.kind = "service"
                  /\ err.Code = "SERVICE_UNAVAILABLE" THEN Exit(4)
             ELSE Exit(2)
          /\ UNCHANGED stderr
  /\ UNCHANGED <<env, cmdline, opts, cfg, client, request, sent, outcome, err,
                 result>>
  /\ UNCHANGED <<t, conv, dateStyle, calendar, rendered>>

\* handleError, lines 169-197.
HandleError ==
  /\ pc = "handleError"
  /\ IF ~HasFormatter(opts.format)
     THEN /\ stderr' = "Error: " \o err.Message \o "\n"
          /\ Exit(2)
          /\ UNCHANGED stdout
     ELSE /\ stdout' = FormatError(opts.format, err)
          /\ IF err.kind = "validation" THEN Exit(3)
             ELSE IF err.kind = "service"
                       /\ err.Code = "SERVICE_UNAVAILABLE" THEN Exit(4)
             ELSE Exit(2)
          /\ UNCHANGED stderr
  /\ UNCHANGED <<env, cmdline, opts, cfg, client, request, sent, outcome, err,
                 result>>
  /\ UNCHANGED <<t, conv, dateStyle, calendar, rendered>>

\* A variant of displayResult that sets the date options back to the
\* built-in defaults.
DisplayResultResettingOptions ==
  /\ pc = "display"
  /\ IF ~HasFormatter(opts.format)
     THEN /\ stderr' = "Error: unsupported format: " \o opts.format \o "\n"
          /\ Exit(2)
          /\ UNCHANGED stdout
     ELSE /\ stdout' = FormatResult(opts.format, result)
          /\ Exit(0)
          /\ UNCHANGED stderr
  /\ SetDateOptions("gce-verbose", "gregorian")
  /\ UNCHANGED <<env, cmdline, opts, cfg, client, request, sent, outcome, err,
                 result>>
  /\ UNCHANGED <<t, conv, rendered>>

\* displayResult, lines 199-214, and the return of main.
DisplayResult ==
  /\ pc = "display"
  /\ IF ~HasFormatter(opts.format)
     THEN /\ stderr' = "Error: unsupported format: " \o opts.format \o "\n"
          /\ Exit(2)
          /\ UNCHANGED stdout
     ELSE /\ stdout' = FormatResult(opts.format, result)
          /\ Exit(0)
          /\ UNCHANGED stderr
  /\ UNCHANGED <<env, cmdline, opts, cfg, client, request, sent, outcome, err,
                 result>>
  /\ UNCHANGED <<t, conv, dateStyle, calendar, rendered>>

Next ==
  \/ ParseFlags
  \/ CheckUsage
  \/ ResolveDateOptions
  \/ ValidateArguments
  \/ CheckVATParse
  \/ CheckVATSend
  \/ HandleError
  \/ DisplayResult

Spec == Init /\ [][Next]_vars

(***************************************************************************)
(* Claims about the command-line run.                                      *)
(***************************************************************************)
\* SetDateOptions has been called in this run.
OptionsResolved ==
  pc \in {"validate", "checkvat", "send", "handleError", "display"}

RECURSIVE FirstNonEmpty(_)
\* The first non-empty string of a sequence whose last one is non-empty.
FirstNonEmpty(sources) ==
  IF Len(sources) = 1 \/ sources[1] # "" THEN sources[1]
  ELSE FirstNonEmpty(SubSeq(sources, 2, Len(sources)))

\* What the command line gave for a flag, empty when it did not give it.
GivenOrEmpty(given) == IF given = <<>> THEN "" ELSE given[1]

\* C1 as stated: each date option handed to SetDateOptions is the first
\* non-empty of command-line flag, config-file value, environment variable,
\* built-in default; with no flag and both the config file and the
\* environment supplying a value, the config-file value is handed over.
C1_FlagConfigEnvDefault ==
  OptionsResolved =>
    /\ dateStyle = FirstNonEmpty(<<GivenOrEmpty(cmdline.dateStyle),
                                   cfg.DateStyle, env.VIESQUERY_DATE_STYLE,
                                   "gce-verbose">>)
    /\ calendar = FirstNonEmpty(<<GivenOrEmpty(cmdline.calendar),
                                  cfg.Calendar, env.VIESQUERY_CALENDAR,
                                  "gregorian">>)

\* C1 amended: each date option handed to SetDateOptions is the value of the
\* flag variable when that is non-empty (what the command line gave for the
\* flag, else the environment variable), else the config-file value when
\* non-empty, else the built-in default; with no flag and both the config
\* file and the environment supplying a value, the environment's value is
\* handed over.
C1_FlagEnvConfigDefault ==
  OptionsResolved =>
    /\ dateStyle =
         FirstNonEmpty(<<IF cmdline.dateStyle # <<>>
                         THEN cmdline.dateStyle[1]
                         ELSE env.VIESQUERY_DATE_STYLE,
                         cfg.DateStyle, "gce-verbose">>)
    /\ calendar =
         FirstNonEmpty(<<IF cmdline.calendar # <<>>
                         THEN cmdline.calendar[1]
                         ELSE env.VIESQUERY_CALENDAR,
                         cfg.Calendar, "gregorian">>)
    /\ (cmdline.dateStyle = <<>> /\ cfg.DateStyle # ""
          /\ env.VIESQUERY_DATE_STYLE # "")
         => dateStyle = env.VIESQUERY_DATE_STYLE
    /\ (cmdline.calendar = <<>> /\ cfg.Calendar # ""
          /\ env.VIESQUERY_CALENDAR # "")
         => calendar = env.VIESQUERY_CALENDAR

\* No flag, and both the config file and the environment name a style and a
\* calendar: the environment's are the ones selected.
C1_Witness ==
  /\ pc = "validate"
  /\ cmdline.dateStyle = <<>> /\ cmdline.calendar = <<>>
  /\ cfg = [DateStyle |-> "rfc3339", Calendar |-> "minguo"]
  /\ env.VIESQUERY_DATE_STYLE = "unix" /\ env.VIESQUERY_CALENDAR = "hebrew"
  /\ dateStyle = "unix" /\ calendar = "hebrew"

\* The year, month and day a date text starts with (YYYY-MM-DD), when it
\* has that shape.
LeadingDate(s) ==
  IF /\ Len(s) >= 10
     /\ AllDigits(SubSeq(s, 1, 4)) /\ CharAt(s, 5) = "-"
     /\ AllDigits(SubSeq(s, 6, 7)) /\ CharAt(s, 8) = "-"
     /\ AllDigits(SubSeq(s, 9, 10))
  THEN <<[year  |-> DecimalValue(SubSeq(s, 1, 4)),
          month |-> DecimalValue(SubSeq(s, 6, 7)),
          day   |-> DecimalValue(SubSeq(s, 9, 10))]>>
  ELSE <<>>

\* VIES answered with a checkVatResponse whose requestDate names a day that
\* is out of range for its month and year.
InvalidDateReceived ==
  /\ outcome.kind = "response" /\ outcome.status = 200
  /\ outcome.body.wellFormed /\ outcome.body.fault = <<>>
  /\ outcome.body.resp # <<>>
  /\ LET ld == LeadingDate(outcome.body.resp[1].RequestDate)
     IN  ld # <<>> /\ ld[1].month \in 1..12 /\ ld[1].day >= 1
           /\ ~ValidDate(ld[1].year, ld[1].month, ld[1].day)

\* C2: an invalid calendar date (a day out of range for the month and year)
\* never becomes a result or an output line: parseSOAPResponse returns an
\* explicit error for it, the run ends through handleError with the error
\* printed and exit code 2, and the date of every result there is is a
\* valid date, the very year, month and day the answer named (not clamped
\* to the month end, not wrapped into the next month).
C2_InvalidDateRejected ==
  /\ InvalidDateReceived =>
       /\ ~result.present
       /\ err.kind = "service" /\ err.Code = "SERVICE_ERROR"
       /\ Contains(err.Message, "Failed to parse request date")
       /\ pc \in {"handleError", "exited"}
       /\ pc = "exited" =>
            /\ exitCode = 2
            /\ ~Contains(stdout, "Request Date")
            /\ ~Contains(stdout, "requestDate")
            /\ Contains(stdout, "Failed to parse request date")
  /\ result.present =>
       /\ ValidDate(result.RequestDate.year, result.RequestDate.month,
                    result.RequestDate.day)
       /\ LeadingDate(outcome.body.resp[1].RequestDate)
            = <<[year  |-> result.RequestDate.year,
                 month |-> result.RequestDate.month,
                 day   |-> result.RequestDate.day]>>

\* February 30 was answered: the run has ended with the error and code 2.
C2_Witness ==
  /\ pc = "exited"
  /\ InvalidDateReceived
  /\ outcome.body.resp[1].RequestDate = "2023-02-30"
  /\ err.Code = "SERVICE_ERROR"
  /\ ~result.present
  /\ exitCode = 2

\* C3: a run exits with code 0 only if the queried VAT number was confirmed
\* valid; when local format validation rejected the number, or VIES answered
\* valid=false, the exit code is not 0.
C3_InvalidExitsNonZero ==
  pc = "exited" =>
    /\ (exitCode = 0 /\ (sent # <<>> \/ err.kind # "none"))
         => (result.present /\ result.Valid)
    /\ (err.kind = "validation" \/ (result.present /\ ~result.Valid))
         => exitCode # 0

\* A step that changes the process-wide selection.
SelectionChanges == <<dateStyle, calendar>>' # <<dateStyle, calendar>>

\* The step of main that calls SetDateOptions (line 106).
StartUpWrite == pc = "config" /\ pc' = "validate"

\* A step that prints a result (its Request Date line included).
ResultPrinted == stdout' # stdout /\ result.present

\* C14 as stated: in every run the selection is written exactly once, by the
\* SetDateOptions call at start-up, before the request is sent and before
\* any date is printed, and is never modified afterwards: the selection
\* changes in the start-up step only, nothing is sent or printed before
\* that step, and no run ends without having taken it.
C14_WrittenOnceInEveryRun ==
  [][/\ SelectionChanges => (StartUpWrite /\ sent = <<>> /\ stdout = "")
     /\ (sent' # sent \/ ResultPrinted)
          => pc \in {"send", "handleError", "display"}
     /\ pc' = "config" => pc = "usage"
     /\ (pc' = "exited" /\ pc # "exited")
          => pc \in {"validate", "checkvat", "send", "handleError",
                     "display"}]_vars

\* C14 amended: a run writes the selection at most once - exactly once, by
\* the SetDateOptions call of line 106, when it gets past the --help,
\* --version and argument-count checks, and never when it ends before
\* (rejected flag, --help, --version, no or several arguments); the write
\* comes before the request is sent and before anything is printed, and the
\* selection is never modified afterwards.
C14_WrittenAtMostOnce ==
  [][/\ SelectionChanges => (StartUpWrite /\ sent = <<>> /\ stdout = "")
     /\ (sent' # sent \/ ResultPrinted)
          => pc \in {"send", "handleError", "display"}
     /\ pc' = "config" => pc = "usage"
     /\ pc = "config"
          => /\ StartUpWrite
             /\ dateStyle' = ResolveOption(opts.dateStyle, cfg'.DateStyle,
                                           "gce-verbose")
             /\ calendar' = ResolveOption(opts.calendar, cfg'.Calendar,
                                          "gregorian")
     /\ (pc' = "exited" /\ pc \in {"start", "usage"})
          => (cmdline'.parseError \/ opts'.help \/ opts'.version
                \/ Len(cmdline'.args) # 1)]_vars

\* A run that selected iso-date and julian at start-up, sent its one
\* request and printed the result under that selection.
C14_Witness ==
  /\ pc = "exited" /\ exitCode = 0
  /\ Len(sent) = 1 /\ result.present
  /\ Contains(stdout, "Request Date")
  /\ dateStyle = "iso-date" /\ calendar = "julian"

\* The command line asked for a query: no rejected flag, no --help, no
\* --version.
QueryAsked == ~cmdline.parseError /\ ~opts.help /\ ~opts.version

\* The command arguments are invalid: not exactly one VAT number, a format
\* other than plain and json, or a timeout below 1.
InvalidArguments ==
  \/ Len(cmdline.args) # 1
  \/ opts.format \notin {"plain", "json"}
  \/ opts.timeout < 1

UnavailableSignalled ==
  /\ outcome.kind = "response"
  /\ \/ outcome.status \in {502, 503, 504}
     \/ /\ outcome.status = 200 /\ outcome.body.wellFormed
        /\ outcome.body.fault # <<>>
        /\ outcome.body.fault[1].String
             \in {"SERVICE_UNAVAILABLE", "MS_UNAVAILABLE"}

\* C16: whenever VIES signals that it is unavailable the run ends with exit
\* code 4 and the plain output advises to retry later.
C16_UnavailableExitsFour ==
  (pc = "exited" /\ UnavailableSignalled) =>
    /\ exitCode = 4
    /\ opts.format = "plain" => Contains(stdout, "retry later")

\* C17: local format validation precedes the network: a request is built or
\* sent only when ValidateFormat accepted the VAT number and the CLI
\* accepted its arguments; a ValidationError comes with no request built or
\* sent, and so does a rejection of the arguments.
C17_ValidationBeforeNetwork ==
  /\ (request # NoRequest \/ sent # <<>> \/ outcome # NoOutcome) =>
       /\ ~InvalidArguments
       /\ ValidateFormat(cmdline.args[1]) = NoError
  /\ err.kind = "validation" =>
       (sent = <<>> /\ request = NoRequest /\ outcome = NoOutcome)
  /\ (pc = "exited" /\ QueryAsked /\ InvalidArguments) =>
       (sent = <<>> /\ request = NoRequest /\ ~client.made)

\* An Austrian number without its U was rejected with nothing sent.
C17_Witness ==
  /\ pc = "exited"
  /\ cmdline.args = <<"AT12345678">>
  /\ err.kind = "validation"
  /\ sent = <<>>
  /\ exitCode = 3

\* C18: when the HTTP exchange does not complete within the client's
\* timeout, CheckVAT returns a ServiceError with code NETWORK_TIMEOUT, the
\* plain error output has the hint to increase --timeout, and the run exits
\* with code 2.
C18_TimeoutIsNetworkTimeout ==
  (pc = "exited" /\ outcome.kind = "doError" /\ outcome.timedOut) =>
    /\ err.kind = "service" /\ err.Code = "NETWORK_TIMEOUT"
    /\ opts.format = "plain"
         => Contains(stdout, "Try increasing timeout with --timeout flag")
    /\ exitCode = 2

C20_ErrorsNameTheNumber ==
  err.kind # "none" =>
    /\ err.VATNumber # ""
    /\ (pc = "exited" /\ opts.format = "plain")
         => Contains(stdout, "VAT Number:")
    /\ (pc = "exited" /\ opts.format = "json")
         => Contains(stdout, "\"vatNumber\"")

\* C21: the "Request Date:" line of the plain result is the string
\* FormatRequestDate gives for the result's date under the selection the
\* run resolved.
C21_RequestDateLineFollowsSelection ==
  (pc = "exited" /\ result.present /\ opts.format = "plain") =>
    Contains(stdout, "Request Date: "
                       \o FormatRequestDate(result.RequestDate) \o "\n")

\* VIES answered with HTTP 200, and its body went to parseSOAPResponse.
BodyParsed == sent # <<>> /\ outcome.kind = "response" /\ outcome.status = 200

\* The text is YYYY-MM-DD, a date of the calendar, with or without a zone
\* suffix +hh:mm or -hh:mm.
ClaimedDateText(s) ==
  /\ LeadingDate(s) # <<>>
  /\ ValidDate(LeadingDate(s)[1].year, LeadingDate(s)[1].month,
               LeadingDate(s)[1].day)
  /\ \/ Len(s) = 10
     \/ /\ Len(s) = 16
        /\ CharAt(s, 11) \in {"+", "-"}
        /\ AllDigits(SubSeq(s, 12, 13)) /\ CharAt(s, 14) = ":"
        /\ AllDigits(SubSeq(s, 15, 16))
        /\ DecimalValue(SubSeq(s, 12, 13)) <= 24
        /\ DecimalValue(SubSeq(s, 15, 16)) <= 60

\* C26: parseSOAPResponse gives every HTTP-200 body exactly one outcome, a
\* result or an error: SERVICE_ERROR for unparsable XML, SOAP_FAULT for a
\* Fault (a checkVatResponse beside it or not), SERVICE_ERROR for a body
\* with neither, and otherwise a result exactly when requestDate parses as
\* YYYY-MM-DD with an optional zone suffix, SERVICE_ERROR when it does not.
C26_OneOutcomePerBody ==
  BodyParsed =>
    LET body == outcome.body
    IN  /\ result.present = (err.kind = "none")
        /\ ~result.present => err.kind = "service"
        /\ ~body.wellFormed => err.Code = "SERVICE_ERROR"
        /\ (body.wellFormed /\ body.fault # <<>>) => err.Code = "SOAP_FAULT"
        /\ (body.wellFormed /\ body.fault = <<>> /\ body.resp = <<>>)
             => err.Code = "SERVICE_ERROR"
        /\ (body.wellFormed /\ body.fault = <<>> /\ body.resp # <<>>)
             => /\ result.present
                     = ClaimedDateText(body.resp[1].RequestDate)
                /\ ~result.present => err.Code = "SERVICE_ERROR"

\* A body with a Fault and a checkVatResponse: the fault is the outcome.
C26_Witness ==
  /\ pc = "exited"
  /\ BodyParsed
  /\ outcome.body.fault # <<>> /\ outcome.body.resp # <<>>
  /\ err.Code = "SOAP_FAULT"
  /\ ~result.present

\* The VAT number as entered, spaces removed, upper-cased, a leading GR
\* written as EL.
ClaimedNormalized(v) ==
  LET u == ToUpper(RemoveSpaces(v))
  IN  IF SubSeq(u, 1, 2) = "GR" THEN "EL" \o SubSeq(u, 3, Len(u)) ELSE u

\* C27: the country code and number of the request CheckVAT sends are those
\* of the normalized VAT number (spaces removed, upper-cased, GR as EL), the
\* number without its leading U for Austria: EL and 123456789 for
\* "gr 123456789", AT and 12345678 for "ATU12345678".
C27_RequestCarriesParsedNumber ==
  sent # <<>> =>
    LET n  == ClaimedNormalized(cmdline.args[1])
        cc == SubSeq(n, 1, 2)
    IN  /\ sent[1].CountryCode = cc
        /\ sent[1].VatNumber
             = IF cc = "AT" /\ CharAt(n, 3) = "U"
               THEN SubSeq(n, 4, Len(n)) ELSE SubSeq(n, 3, Len(n))
        /\ cmdline.args[1] = "gr 123456789"
             => sent[1] = [CountryCode |-> "EL", VatNumber |-> "123456789"]
        /\ cmdline.args[1] = "ATU12345678"
             => sent[1] = [CountryCode |-> "AT", VatNumber |-> "12345678"]

C27_Witness ==
  /\ cmdline.args = <<"gr 123456789">>
  /\ sent = <<[CountryCode |-> "EL", VatNumber |-> "123456789"]>>
  /\ pc = "exited"

\* C28: on success the result's CountryCode and VatNumber, and with them the
\* "VAT Number:" line of the plain output, reproduce the VAT number the user
\* entered in normalized form, Austrian numbers ATU + 8 digits included.
C28_DisplaysEnteredNumber ==
  result.present =>
    /\ result.CountryCode \o result.VatNumber
         = ClaimedNormalized(cmdline.args[1])
    /\ (pc = "exited" /\ opts.format = "plain")
         => HasPrefix(stdout, "VAT Number: "
                                \o ClaimedNormalized(cmdline.args[1]) \o "\n")

(***************************************************************************)
(* SpecCalendar: the conversions applied to one date.  Their only caller,  *)
(* verboseCalendarSentence, passes the year, month and day of a time.Time, *)
(* so the inputs are the valid proleptic-Gregorian dates.                  *)
(***************************************************************************)
CalendarYears ==
  ((0 - DeepestYear) .. -4798) \cup (-1 .. 1) \cup (620 .. 655)
    \cup (1800 .. LastYear)

Conversions(y, m, d) ==
  [done     |-> TRUE,
   jdn      |-> gregorianToJDN(y, m, d),
   julian   |-> julianFromGregorian(y, m, d),
   japanese |-> japaneseEra(y, m, d),
   islamic  |-> islamicCivilFromGregorian(y, m, d),
   hebrew   |-> hebrewYearApprox(y, m, d)]

CalendarInit ==
  /\ t \in {x \in [year : CalendarYears, month : 1..12, day : 1..31] :
              ValidDate(x.year, x.month, x.day)}
  /\ conv = NoConv
  /\ RenderIdle
  /\ CliIdle

Convert ==
  /\ ~conv.done
  /\ conv' = Conversions(t.year, t.month, t.day)
  /\ UNCHANGED <<t, dateStyle, calendar, rendered>>
  /\ UNCHANGED cliVars

CalendarNext == Convert

SpecCalendar == CalendarInit /\ [][CalendarNext]_vars

(***************************************************************************)
(* Claims about the calendar conversions (checked under SpecCalendar).     *)
(***************************************************************************)
TValid == ValidDate(t.year, t.month, t.day)

\* The JDN formula of spec section 4.1, with floor division throughout.
FloorJDN(y, m, d) ==
  LET a  == (14 - m) \div 12
      y2 == y + 4800 - a
      m2 == m + 12 * a - 3
  IN  d + ((153 * m2 + 2) \div 5) + 365 * y2
        + (y2 \div 4) - (y2 \div 100) + (y2 \div 400) - 32045

\* C4: gregorianToJDN equals the floor-division formula for every valid
\* proleptic-Gregorian date, the years below -4800 included.
C4_MatchesFloorFormula ==
  conv.done => conv.jdn = FloorJDN(t.year, t.month, t.day)

\* C5: the Julian Day Number of the next calendar day is strictly greater
\* than the Julian Day Number of the day itself, for every valid date.
C5_StrictlyIncreasing ==
  conv.done =>
    LET n == NextDay(t.year, t.month, t.day)
    IN  gregorianToJDN(n[1], n[2], n[3]) > conv.jdn

\* The standard Julian-calendar date to JDN transform.
julianToJDN(y, m, d) ==
  LET a  == (14 - m) \div 12
      y2 == y + 4800 - a
      m2 == m + 12 * a - 3
  IN  d + ((153 * m2 + 2) \div 5) + 365 * y2 + (y2 \div 4) - 32083

ValidJulianDate(y, m, d) ==
  /\ m \in 1..12
  /\ d >= 1
  /\ d <= (IF m = 2 THEN (IF y % 4 = 0 THEN 29 ELSE 28)
           ELSE IF m \in {4, 6, 9, 11} THEN 30 ELSE 31)

\* C6: for every valid Gregorian date from 1800-01-01 to 2200-12-31,
\* gregorianToJDN, then jdnToJulian, then the standard Julian-date-to-JDN
\* transform gives back the JDN of the first step, and the Julian date in
\* between is a valid date of the Julian calendar.
C6_JulianRoundTrip ==
  (conv.done /\ t.year \in 1800..2200) =>
    /\ ValidJulianDate(conv.julian.year, conv.julian.month, conv.julian.day)
    /\ julianToJDN(conv.julian.year, conv.julian.month, conv.julian.day)
         = conv.jdn

\* 2025-09-09 Gregorian is 2025-08-27 in the Julian calendar (13 days back).
C6_Witness ==
  /\ conv.done
  /\ t = [year |-> 2025, month |-> 9, day |-> 9]
  /\ conv.julian = [year |-> 2025, month |-> 8, day |-> 27]

\* (year, month, day) in lexicographic order, as one integer.
DateKey(y, m, d) == y * 10000 + m * 100 + d

\* The era starts named by the claim.
ClaimedEraStarts ==
  { <<"Reiwa", 2019, 5, 1>>, <<"Heisei", 1989, 1, 8>>,
    <<"Showa", 1926, 12, 25>>, <<"Taisho", 1912, 7, 30>>,
    <<"Meiji", 1868, 10, 23>> }

ClaimedEra(y, m, d) ==
  LET begun == {e \in ClaimedEraStarts :
                  DateKey(e[2], e[3], e[4]) <= DateKey(y, m, d)}
  IN  IF begun = {} THEN [era |-> "Pre-Meiji", eraYear |-> y]
      ELSE LET e == CHOOSE x \in begun : \A o \in begun :
                      DateKey(o[2], o[3], o[4]) <= DateKey(x[2], x[3], x[4])
           IN  [era |-> e[1], eraYear |-> y - e[2] + 1]

\* C7: japaneseEra gives the era with the greatest start date that is <= the
\* date in (year, month, day) order, with era year = year - start year + 1,
\* and "Pre-Meiji" with the Gregorian year before 1868-10-23; so 1989-01-07
\* is Showa 64, 1989-01-08 Heisei 1, 2019-04-30 Heisei 31, 2019-05-01 Reiwa 1.
C7_JapaneseEra ==
  conv.done =>
    /\ conv.japanese = ClaimedEra(t.year, t.month, t.day)
    /\ (t = [year |-> 1989, month |-> 1, day |-> 7]
          => conv.japanese = [era |-> "Showa", eraYear |-> 64])
    /\ (t = [year |-> 1989, month |-> 1, day |-> 8]
          => conv.japanese = [era |-> "Heisei", eraYear |-> 1])
    /\ (t = [year |-> 2019, month |-> 4, day |-> 30]
          => conv.japanese = [era |-> "Heisei", eraYear |-> 31])
    /\ (t = [year |-> 2019, month |-> 5, day |-> 1]
          => conv.japanese = [era |-> "Reiwa", eraYear |-> 1])
    /\ (DateKey(t.year, t.month, t.day) < DateKey(1868, 10, 23)
          => conv.japanese = [era |-> "Pre-Meiji", eraYear |-> t.year])

C7_Witness ==
  /\ conv.done
  /\ t = [year |-> 1989, month |-> 1, day |-> 8]
  /\ conv.japanese = [era |-> "Heisei", eraYear |-> 1]

\* The proleptic-Gregorian date of a Julian Day Number (the inverse of the
\* standard formula, for JDN >= 0).
GregorianFromJDN(jdn) ==
  LET a == jdn + 32044
      b == (4 * a + 3) \div 146097
      c == a - ((146097 * b) \div 4)
      d == (4 * c + 3) \div 1461
      e == c - ((1461 * d) \div 4)
      m == (5 * e + 2) \div 153
  IN  [year  |-> 100 * b + d - 4800 + (m \div 10),
       month |-> m + 3 - 12 * (m \div 10),
       day   |-> e - ((153 * m + 2) \div 5) + 1]

\* C8: the date whose JDN is the epoch 1948440 converts to 1 Muharram of
\* year 1; and a date on or after the epoch and the date 10631 days later
\* have the same Islamic month and day, and Islamic years exactly 30 apart.
C8_IslamicEpochAndCycle ==
  conv.done =>
    /\ (conv.jdn = 1948440
          => conv.islamic = [year |-> 1, month |-> 1, day |-> 1])
    /\ (conv.jdn >= 1948440 =>
          LET later == GregorianFromJDN(conv.jdn + 10631)
              li == islamicCivilFromGregorian(later.year, later.month,
                                              later.day)
          IN  /\ ValidDate(later.year, later.month, later.day)
              /\ gregorianToJDN(later.year, later.month, later.day)
                   = conv.jdn + 10631
              /\ li.month = conv.islamic.month
              /\ li.day = conv.islamic.day
              /\ li.year = conv.islamic.year + 30)

\* 2025-09-09, well after the epoch, is 16 Rabi' al-awwal 1447.
C8_Witness ==
  /\ conv.done
  /\ t = [year |-> 2025, month |-> 9, day |-> 9]
  /\ conv.jdn >= 1948440
  /\ conv.islamic = [year |-> 1447, month |-> 3, day |-> 16]

\* C22: hebrewYearApprox is the Gregorian year + 3761 on and after
\* September 20 and the Gregorian year + 3760 before it (September 19 gives
\* +3760, September 20 gives +3761), and never decreases from a day to the
\* next.
C22_HebrewYearThreshold ==
  (conv.done /\ TValid) =>
    LET next == NextDay(t.year, t.month, t.day)
    IN  /\ conv.hebrew = t.year + (IF t.month * 100 + t.day >= 920
                                   THEN 3761 ELSE 3760)
        /\ (t.month = 9 /\ t.day = 19) => conv.hebrew = t.year + 3760
        /\ (t.month = 9 /\ t.day = 20) => conv.hebrew = t.year + 3761
        /\ hebrewYearApprox(next[1], next[2], next[3]) >= conv.hebrew

C22_Witness ==
  /\ conv.done
  /\ t = [year |-> 2025, month |-> 9, day |-> 20]
  /\ conv.hebrew = 5786

\* The date lies from 1800-01-01 to 2200-12-30, so that the day after it is
\* no later than 2200-12-31.
HasClaimedSuccessor ==
  /\ t.year \in 1800..2200
  /\ ~(t.year = 2200 /\ t.month = 12 /\ t.day = 31)

\* C29: from a Gregorian day to the next, 1800-01-01 to 2200-12-31, the
\* Islamic date goes from (y, m, d) to (y, m, d+1), or to (y, m+1, 1), or
\* from month 12 to (y+1, 1, 1); odd months have 30 days, even months 29,
\* and month 12 has 30 days in exactly 11 years of a 30-year cycle.
C29_IslamicEnumeration ==
  (conv.done /\ TValid /\ HasClaimedSuccessor) =>
    LET next == NextDay(t.year, t.month, t.day)
        cur  == conv.islamic
        nxt  == islamicCivilFromGregorian(next[1], next[2], next[3])
    IN  /\ \/ nxt = [cur EXCEPT !.day = cur.day + 1]
           \/ /\ cur.month < 12
              /\ nxt = [year |-> cur.year, month |-> cur.month + 1,
                        day |-> 1]
              /\ cur.day = IF cur.month % 2 = 1 THEN 30 ELSE 29
           \/ /\ cur.month = 12
              /\ nxt = [year |-> cur.year + 1, month |-> 1, day |-> 1]
              /\ cur.day \in {29, 30}
        /\ cur.day <= (IF cur.month % 2 = 1 \/ cur.month = 12
                       THEN 30 ELSE 29)
        /\ (cur.year % 30 = 1 /\ cur.month = 1 /\ cur.day = 1) =>
             /\ Cardinality({k \in 0..10630 :
                   LET x == islamicFromJDN(conv.jdn + k)
                   IN  x.month = 12 /\ x.day = 30}) = 11
             /\ islamicFromJDN(conv.jdn + 10631)
                  = [year |-> cur.year + 30, month |-> 1, day |-> 1]

\* The 30th of month 12 of the leap year 1445: the next day opens 1446.
C29_Witness ==
  /\ conv.done
  /\ t = [year |-> 2024, month |-> 7, day |-> 7]
  /\ conv.islamic = [year |-> 1445, month |-> 12, day |-> 30]
  /\ islamicCivilFromGregorian(2024, 7, 8)
       = [year |-> 1446, month |-> 1, day |-> 1]

\* C30: for every valid Gregorian date of the years 1 to 9999 the julian and
\* islamic conversions give a month in 1..12 and a day in 1..31 (1..30 for
\* islamic), so that monthName and islamicMonthName are never empty and the
\* verbose sentence has a month name and a positive day.
C30_MonthAndDayInRange ==
  (conv.done /\ TValid /\ t.year \in 1..9999) =>
    /\ conv.julian.month \in 1..12
    /\ conv.julian.day \in 1..31
    /\ monthName(conv.julian.month) # ""
    /\ conv.islamic.month \in 1..12
    /\ conv.islamic.day \in 1..30
    /\ islamicMonthName(conv.islamic.month) # ""
    /\ ~Contains(verboseCalendarSentence("islamic", t), ",  ")

(***************************************************************************)
(* SpecRender: the selection is set, then a date is rendered.              *)
(***************************************************************************)
SupportedStyles == {"gce-verbose", "iso-date", "rfc3339", "unix", "iso-week"}

SupportedCalendars ==
  {"gregorian", "julian", "buddhist", "minguo", "japanese", "islamic",
   "hebrew"}

\* Names a user can pass that the switches do not know (the comparison is
\* exact, so a supported name in another case is unknown too).
UnsupportedStyles == {"ISO-DATE", "verbose"}

UnsupportedCalendars == {"Julian", "persian"}

StyleInputs == SupportedStyles \cup UnsupportedStyles

CalendarInputs == SupportedCalendars \cup UnsupportedCalendars

\* The first of the consecutive years whose dates SpecRender renders, and
\* how many of them.
RenderFirstYear == 2024
RenderYearCount == 2

RenderDates ==
  {x \in [year  : RenderFirstYear .. (RenderFirstYear + RenderYearCount - 1),
          month : 1..12, day : 1..31] : ValidDate(x.year, x.month, x.day)}
    \cup { [year |-> 1969, month |-> 12, day |-> 31],
           [year |-> 1970, month |-> 1,  day |-> 1],
           [year |-> 1989, month |-> 1,  day |-> 7],
           [year |-> 1989, month |-> 1,  day |-> 8],
           [year |-> 2019, month |-> 4,  day |-> 30],
           [year |-> 2019, month |-> 5,  day |-> 1],
           [year |-> 2016, month |-> 1,  day |-> 1],
           [year |-> 2018, month |-> 12, day |-> 31],
           [year |-> 2020, month |-> 12, day |-> 31],
           [year |-> 2021, month |-> 1,  day |-> 3],
           [year |-> 2023, month |-> 1,  day |-> 1] }

RenderInit ==
  /\ t \in RenderDates
  /\ conv = NoConv
  /\ RenderIdle
  /\ CliIdle

SetOptions ==
  /\ rendered = ""
  /\ \E style \in StyleInputs, cal \in CalendarInputs :
       SetDateOptions(style, cal)
  /\ UNCHANGED <<t, conv, rendered>>
  /\ UNCHANGED cliVars

Render ==
  /\ rendered = ""
  /\ rendered' = FormatRequestDate(t)
  /\ UNCHANGED <<t, conv, dateStyle, calendar>>
  /\ UNCHANGED cliVars

RenderNext == SetOptions \/ Render

SpecRender == RenderInit /\ [][RenderNext]_vars

(***************************************************************************)
(* Claims about the rendering (checked under SpecRender).                  *)
(***************************************************************************)
VerbosePath == dateStyle \notin {"iso-date", "rfc3339", "unix", "iso-week"}

\* C9: every verbose sentence rendered for calendar islamic or hebrew
\* carries, in its text, the label of a tabular approximation.
C9_ApproximationLabelled ==
  (rendered # "" /\ VerbosePath /\ calendar \in {"islamic", "hebrew"})
    => Contains(rendered, "approximation")

\* C10: FormatRequestDate returns a rendering for every selection; for a
\* style outside the five supported ones it is the rendering of gce-verbose
\* for the same date and calendar, and for a calendar outside the seven
\* supported ones the verbose rendering is the one of calendar gregorian.
C10_SilentFallback ==
  rendered # "" =>
    /\ (dateStyle \notin SupportedStyles
          => rendered = formatRequestDate("gce-verbose", calendar, t))
    /\ ((VerbosePath /\ calendar \notin SupportedCalendars)
          => rendered = formatRequestDate("gce-verbose", "gregorian", t))
    /\ ((dateStyle \notin SupportedStyles
           /\ calendar \notin SupportedCalendars)
          => rendered = "This request was made on " \o WeekdayString(t)
                          \o ", " \o MonthString(t) \o " "
                          \o ToString(t.day) \o ordinalSuffix(t.day)
                          \o " of the year " \o ToString(t.year)
                          \o " of the common era.")

C10_Witness ==
  /\ dateStyle = "ISO-DATE"
  /\ calendar = "persian"
  /\ t = [year |-> 2025, month |-> 9, day |-> 9]
  /\ rendered = "This request was made on Tuesday, September 9th of the year 2025 of the common era."

\* C11: for the styles iso-date, rfc3339, unix and iso-week the rendering
\* depends on the date only: every calendar selection, supported or not,
\* gives the same text for the same date, and no calendar conversion is
\* called.
C11_CalendarNeutralStyles ==
  (rendered # "" /\ ~VerbosePath) =>
    /\ \A cal \in CalendarInputs :
         formatRequestDate(dateStyle, cal, t) = rendered
    /\ conversionsCalled(dateStyle, calendar) = {}

C11_Witness ==
  /\ dateStyle = "iso-date"
  /\ calendar = "julian"
  /\ t = [year |-> 2025, month |-> 9, day |-> 9]
  /\ rendered = "2025-09-09"

\* The ISO weekday of a date, Monday = 1 ... Sunday = 7, from its Julian
\* Day Number (day 0 is a Monday).
ClaimedIsoWeekday(tt) == (gregorianToJDN(tt.year, tt.month, tt.day) % 7) + 1

\* The Monday of the week that holds the first Thursday of year y.
Week1Monday(y) ==
  LET first == gregorianToJDN(y, 1, 1)
  IN  (CHOOSE j \in first .. (first + 6) : j % 7 = 3) - 3

\* The ISO week-numbering year of a date.
ClaimedIsoYear(tt) ==
  LET j == gregorianToJDN(tt.year, tt.month, tt.day)
  IN  IF j < Week1Monday(tt.year) THEN tt.year - 1
      ELSE IF j >= Week1Monday(tt.year + 1) THEN tt.year + 1
      ELSE tt.year

\* The ISO week number of a date.
ClaimedIsoWeek(tt) ==
  ((gregorianToJDN(tt.year, tt.month, tt.day)
      - Week1Monday(ClaimedIsoYear(tt))) \div 7) + 1

\* C12: style iso-week renders "YYYY-Www-D": D the ISO weekday (Monday 1
\* ... Sunday 7), ww the ISO week number in 01..53 (week 01 holds the
\* year's first Thursday), YYYY the ISO week-numbering year; 2025-09-09
\* renders "2025-W37-2".
C12_IsoWeekDate ==
  (rendered # "" /\ dateStyle = "iso-week") =>
    /\ rendered = ZeroPad(ClaimedIsoYear(t), 4) \o "-W"
                    \o ZeroPad(ClaimedIsoWeek(t), 2) \o "-"
                    \o ToString(ClaimedIsoWeekday(t))
    /\ ClaimedIsoWeek(t) \in 1..53
    /\ ClaimedIsoWeekday(t) \in 1..7
    /\ t = [year |-> 2025, month |-> 9, day |-> 9]
         => rendered = "2025-W37-2"

\* A Sunday of early January that belongs to week 53 of the year before.
C12_Witness ==
  /\ dateStyle = "iso-week"
  /\ t = [year |-> 2021, month |-> 1, day |-> 3]
  /\ rendered = "2020-W53-7"

\* C13: style unix renders the decimal integer 86400 times the number of
\* days from 1970-01-01 to the date, that is 86400 x (gregorianToJDN(date) -
\* 2440588): "0" for 1970-01-01, "-86400" for 1969-12-31, negative for every
\* earlier date.
C13_UnixMidnightSeconds ==
  (rendered # "" /\ dateStyle = "unix") =>
    /\ rendered = ToString(86400 * (gregorianToJDN(t.year, t.month, t.day)
                                      - 2440588))
    /\ t = [year |-> 1970, month |-> 1, day |-> 1] => rendered = "0"
    /\ t = [year |-> 1969, month |-> 12, day |-> 31] => rendered = "-86400"
    /\ t.year < 1970 => SubSeq(rendered, 1, 1) = "-"

C13_Witness ==
  /\ dateStyle = "unix"
  /\ t = [year |-> 1969, month |-> 12, day |-> 31]
  /\ rendered = "-86400"

\* The ordinal suffix of a day number: "th" for 11, 12 and 13 (of a hundred),
\* else by the last digit.
ClaimedSuffix(n) ==
  IF n % 100 \in {11, 12, 13} THEN "th"
  ELSE IF n % 10 = 1 THEN "st"
  ELSE IF n % 10 = 2 THEN "nd"
  ELSE IF n % 10 = 3 THEN "rd"
  ELSE "th"

\* The month and the day a verbose sentence prints for a date: the Julian
\* ones for julian, the Hijri ones for islamic, the Gregorian ones otherwise.
PrintedDate(cal, tt) ==
  IF cal = "julian"
  THEN LET j == julianFromGregorian(tt.year, tt.month, tt.day)
       IN  [month |-> goMonthNames[j.month], day |-> j.day]
  ELSE IF cal = "islamic"
  THEN LET i == islamicCivilFromGregorian(tt.year, tt.month, tt.day)
       IN  [month |-> islamicMonthName(i.month), day |-> i.day]
  ELSE [month |-> goMonthNames[tt.month], day |-> tt.day]

\* C23: in every verbose sentence the suffix after the printed day number n
\* is the suffix of n ("th" for 11, 12, 13, else "st", "nd", "rd" by the last
\* digit, else "th"); for julian and islamic n is the converted day.
C23_SuffixOfPrintedDay ==
  (rendered # "" /\ VerbosePath) =>
    LET n == PrintedDate(calendar, t).day
    IN  /\ Contains(rendered, " " \o ToString(n) \o ClaimedSuffix(n) \o " ")
        /\ \A sfx \in {"st", "nd", "rd", "th"} \ {ClaimedSuffix(n)} :
             ~Contains(rendered, " " \o ToString(n) \o sfx \o " ")

\* Gregorian September 14th is Julian September 1st: "st", not "th".
C23_Witness ==
  /\ calendar = "julian"
  /\ t = [year |-> 2025, month |-> 9, day |-> 14]
  /\ rendered = "This request was made on Sunday, September 1st of the year 2025 of the Julian calendar."

\* The weekday name by the Julian Day Number: (JDN + 1) mod 7 is 0 for
\* Sunday ... 6 for Saturday.
ClaimedWeekdayName(tt) ==
  weekdayNames[((gregorianToJDN(tt.year, tt.month, tt.day) + 1) % 7) + 1]

\* C24: in every verbose sentence the weekday name is the one of the input
\* Gregorian date, the same under every calendar, and agrees with the date's
\* Julian Day Number; the month name and day are the Julian ones for julian,
\* the Hijri ones for islamic, the Gregorian ones for every other calendar.
C24_WeekdayAndMonthNames ==
  (rendered # "" /\ VerbosePath) =>
    LET opening == "This request was made on " \o ClaimedWeekdayName(t)
                     \o ", "
        printed == PrintedDate(calendar, t)
    IN  /\ HasPrefix(rendered, opening \o printed.month \o " "
                                 \o ToString(printed.day))
        /\ \A cal \in CalendarInputs :
             HasPrefix(formatRequestDate(dateStyle, cal, t), opening)

C24_Witness ==
  /\ calendar = "islamic"
  /\ VerbosePath
  /\ t = [year |-> 2025, month |-> 9, day |-> 9]
  /\ rendered = "This request was made on Tuesday, Rabi' al-awwal 16th in year 1447 AH of the Islamic (Hijri) calendar."

\* C25: calendar buddhist prints year + 543 and calendar minguo year - 1911,
\* whatever the month and day, with the Gregorian weekday, month name and
\* day; 2025-09-09 gives 2568 and 114.
C25_AdditiveYearOffsets ==
  (rendered # "" /\ VerbosePath) =>
    LET head == "This request was made on " \o ClaimedWeekdayName(t) \o ", "
                  \o goMonthNames[t.month] \o " " \o ToString(t.day)
                  \o ClaimedSuffix(t.day) \o " of the year "
    IN  /\ calendar = "buddhist"
             => rendered = head \o ToString(t.year + 543)
                             \o " of the Buddhist Era."
        /\ calendar = "minguo"
             => rendered = head \o ToString(t.year - 1911)
                             \o " of the Minguo calendar."
        /\ (calendar = "buddhist"
              /\ t = [year |-> 2025, month |-> 9, day |-> 9])
             => Contains(rendered, "of the year 2568 of")
        /\ (calendar = "minguo"
              /\ t = [year |-> 2025, month |-> 9, day |-> 9])
             => Contains(rendered, "of the year 114 of")

C25_Witness ==
  /\ calendar = "minguo"
  /\ VerbosePath
  /\ t = [year |-> 2025, month |-> 9, day |-> 9]
  /\ rendered = "This request was made on Tuesday, September 9th of the year 114 of the Minguo calendar."

====
